---------------------------- MODULE Spec2Model ----------------------------
(***************************************************************************)
(* Verification model of the moonsimdata content-pipeline scripts.         *)
(*                                                                         *)
(* The repository is a set of independent programs, so the module holds    *)
(* one specification per program; each specification moves only the        *)
(* variables of its own program and leaves the others at their idle value. *)
(*                                                                         *)
(*   Spec      terrain-editor/app/main.py (Flask handlers over config.json *)
(*             and the overlays directory)                                 *)
(***************************************************************************)
EXTENDS Integers, Sequences, FiniteSets, TLC

VARIABLES
    configFile,     \* terrain editor: content of TERRAIN_PATH/config.json
    overlayFiles,   \* terrain editor: file name -> bytes in TERRAIN_PATH/overlays
    response,       \* terrain editor: the answer of the request handled last
    lastSave,       \* history: item -> body of its last successful POST /api/save
    requests,       \* terrain editor: number of requests handled so far
    abilities,      \* left-side card: character_data['Ability'] (the input list)
    yamlDoc,        \* left-side card: abilities_strings.yaml as parsed by yaml.safe_load
    yamlMap,        \* left-side card: ABILITIES_YAML
    groups,         \* left-side card: the lists passive, activated, arcane
    sizes,          \* left-side card: title_size, body_size
    heights,        \* left-side card: what measure() returns for each title size
    measured,       \* history: the calls of measure(), <<title, body, needed>>
    drawn,          \* left-side card: what the draw pass drew, in order
    cardPc,         \* left-side card: position in main / layout_and_draw_abilities
    wrapIn,         \* text wrapping: the function called and its arguments
    wrapWords,      \* text wrapping: the words the loop has still to place
    wrapLine,       \* text wrapping: line / current_line
    wrapLines,      \* text wrapping: lines
    wrapPc,         \* text wrapping: position in the function
    sigMove,        \* signature card: character_data['SignatureMove']
    sigDrawn,       \* signature card: the texts drawn, in order
    sigPc,          \* signature card: position in draw_signature_move_card
    namesFile,      \* final PDFs: the lines of names_by_page_in_pdf.txt
    imageFiles,     \* final PDFs: names that have a card image
    pdfFiles,       \* final PDFs: file name -> names of the images on its pages
    pdfChunks,      \* final PDFs: the chunks still to be written
    pdfPc,          \* final PDFs: position in main
    gridIn,         \* grid PDF: the arguments of generate_pdf_with_grid
    gridPages,      \* grid PDF: the pages shown, each the images drawn with their place
    gridPc,         \* grid PDF: position in generate_pdf_with_grid
    missIn,         \* missing abilities: the characters, --dry-run and the YAML file at the start
    missYaml,       \* missing abilities: the text of abilities_strings.yaml
    missExisting,   \* missing abilities: existing_raw_names
    missQueue,      \* missing abilities: the eligible characters not yet processed
    missLogs,       \* missing abilities: the files written under model_ability_generation/
    missApiCalls,   \* missing abilities: number of calls of the chat completions API
    missPc,         \* missing abilities: position in main
    verIn,          \* get_versions_from_pdf.py: the names, page texts and JSON list given to assign_versions
    verJson,        \* json_data, the list assign_versions updates in place
    verCursor,      \* name_to_cursor
    verI,           \* the loop index i of assign_versions
    verPc,          \* position of assign_versions
    yelIn,          \* extract_yellow_circles.py: the JSON list and the extraction result given to update_json_with_yellow_circles
    yelJson,        \* json_data, the list update_json_with_yellow_circles updates in place
    yelPc,          \* position of update_json_with_yellow_circles
    layIn,          \* layout_and_draw_abilities: the ability, the font and the width of the text area
    layNeeded,      \* layout_and_draw_abilities: what measure returned for the sizes chosen
    layY,           \* layout_and_draw_abilities: y of the draw pass
    layPc,          \* layout_and_draw_abilities: position between the two passes
    concConfig,     \* terrain editor, concurrent handlers: the content of config.json
    concOverlays,   \* terrain editor, concurrent handlers: the files of the overlays directory
    concPc,         \* terrain editor, concurrent handlers: where each handler of POST /api/save stands
    concReq,        \* terrain editor, concurrent handlers: request.json of each handler
    concLocal       \* terrain editor, concurrent handlers: the local variable config of each handler

terrainVars == <<configFile, overlayFiles, response, lastSave, requests>>

cardVars ==
    <<abilities, yamlDoc, yamlMap, groups, sizes, heights, measured, drawn, cardPc>>

wrapVars == <<wrapIn, wrapWords, wrapLine, wrapLines, wrapPc>>

sigVars == <<sigMove, sigDrawn, sigPc>>

pdfVars == <<namesFile, imageFiles, pdfFiles, pdfChunks, pdfPc>>

gridVars == <<gridIn, gridPages, gridPc>>

missVars == <<missIn, missYaml, missExisting, missQueue, missLogs, missApiCalls, missPc>>

verVars == <<verIn, verJson, verCursor, verI, verPc>>

yelVars == <<yelIn, yelJson, yelPc>>

layVars == <<layIn, layNeeded, layY, layPc>>

concVars == <<concConfig, concOverlays, concPc, concReq, concLocal>>

vars == <<terrainVars, cardVars, wrapVars, sigVars, pdfVars, gridVars, missVars, verVars, yelVars, layVars, concVars>>

\* What a program of the repository leaves alone: the state of the others.
exceptTerrain == <<cardVars, wrapVars, sigVars, pdfVars, gridVars, missVars, verVars, yelVars, layVars, concVars>>
exceptCard == <<terrainVars, wrapVars, sigVars, pdfVars, gridVars, missVars, verVars, yelVars, layVars, concVars>>
exceptWrap == <<terrainVars, cardVars, sigVars, pdfVars, gridVars, missVars, verVars, yelVars, layVars, concVars>>
exceptSig == <<terrainVars, cardVars, wrapVars, pdfVars, gridVars, missVars, verVars, yelVars, layVars, concVars>>
exceptPdf == <<terrainVars, cardVars, wrapVars, sigVars, gridVars, missVars, verVars, yelVars, layVars, concVars>>
exceptGrid == <<terrainVars, cardVars, wrapVars, sigVars, pdfVars, missVars, verVars, yelVars, layVars, concVars>>
exceptMiss == <<terrainVars, cardVars, wrapVars, sigVars, pdfVars, gridVars, verVars, yelVars, layVars, concVars>>
exceptVer == <<terrainVars, cardVars, wrapVars, sigVars, pdfVars, gridVars, missVars, yelVars, layVars, concVars>>
exceptYel == <<terrainVars, cardVars, wrapVars, sigVars, pdfVars, gridVars, missVars, verVars, layVars, concVars>>
exceptLay == <<terrainVars, cardVars, wrapVars, sigVars, pdfVars, gridVars, missVars, verVars, yelVars, concVars>>
exceptConc == <<terrainVars, cardVars, wrapVars, sigVars, pdfVars, gridVars, missVars, verVars, yelVars, layVars>>

(***************************************************************************)
(* Bounds of the model.                                                    *)
(***************************************************************************)
MaxRequests == 3
MaxAbilities == 2
MaxTextLen == 5
MaxWidth == 5
MaxLines == 6
MaxImages == 5
MaxCharacters == 2
MaxPages == 3
MaxRecords == 2

(***************************************************************************)
(* terrain-editor/app/main.py                                              *)
(***************************************************************************)

\* Python's None / JSON null, and the marker of a file that does not exist.
None == "None"
NoFile == "NoFile"

ItemTypes == {"objects", "backgrounds"}

\* File names of base images (objects/ and backgrounds/ hold them); two of them
\* share a stem.
ItemNames == {"a.png", "a.jpg", "b.png"}

\* Path(item_name).stem
Stem(item_name) ==
    CASE item_name = "a.png" -> "a"
      [] item_name = "a.jpg" -> "a"
      [] item_name = "b.png" -> "b"

\* f"{base_name}_overlay.png"
OverlayFilename(item_name) ==
    CASE Stem(item_name) = "a" -> "a_overlay.png"
      [] Stem(item_name) = "b" -> "b_overlay.png"

OverlayFilenames == {OverlayFilename(n) : n \in ItemNames}

\* f'/api/image/overlays/{overlay_filename}'
OverlayUrl(overlay_filename) ==
    CASE overlay_filename = "a_overlay.png" -> "/api/image/overlays/a_overlay.png"
      [] overlay_filename = "b_overlay.png" -> "/api/image/overlays/b_overlay.png"

DefaultOverlayWidth == 400
DefaultOverlayHeight == 400

\* The default entry of get_item_config.
DefaultItemConfig ==
    [overlay |-> None, overlayWidth |-> DefaultOverlayWidth,
     overlayHeight |-> DefaultOverlayHeight, flying |-> FALSE, colors |-> <<>>]

\* {} : the dictionary without keys.
EmptyDict == [k \in {} |-> None]

\* The dictionary load_config falls back to.
EmptyConfig == [t \in ItemTypes |-> EmptyDict]

\* d.get(key, default) of a dictionary modelled as a function.
DictGet(d, key, default) == IF key \in DOMAIN d THEN d[key] ELSE default

\* d[key] = value of a dictionary modelled as a function.
DictSet(d, key, value) ==
    [k \in DOMAIN d \cup {key} |-> IF k = key THEN value ELSE d[k]]

\* load_config: the parsed object, or the fallback when config.json is
\* missing, blank after strip(), or rejected by json.loads.
LoadConfigMutNoFallback(file) ==
    IF file.kind = "object" THEN file.value ELSE EmptyDict

load_config(file) ==
    IF file.kind = "object" THEN file.value ELSE EmptyConfig

\* save_config: json.dump of the dictionary into config.json.
save_config(config) == [kind |-> "object", value |-> config]

\* ---- the JSON body of POST /api/save ----

\* overlayData is a string, modelled as its sequence of pieces: "," is the
\* comma, every other piece a run of characters without a comma.
Comma == ","

\* ',' in overlay_data
HasComma(s) == \E i \in 1..Len(s) : s[i] = Comma

\* Index of the first comma of s at or after position from (Len(s)+1 if none).
RECURSIVE NextComma(_, _)
NextComma(s, from) ==
    IF from > Len(s) THEN Len(s) + 1
    ELSE IF s[from] = Comma THEN from
    ELSE NextComma(s, from + 1)

\* overlay_data.split(',')[1] of a string that holds a comma: what stands
\* between the first comma and the next one (or the end).
SplitCommaSecond(s) ==
    LET first == NextComma(s, 1)
        second == NextComma(s, first + 1)
    IN  SubSeq(s, first + 1, second - 1)

\* base64.b64decode: the bytes of a well-formed payload, b"" for the empty
\* string, and binascii.Error for a payload with incorrect padding.
B64Raises(s) == s # <<>> /\ s[1] \notin {"aW1nMQ==", "aW1nMg=="}

b64decode(s) ==
    IF s = <<>> THEN "empty"
    ELSE CASE s[1] = "aW1nMQ==" -> "img1"
           [] s[1] = "aW1nMg==" -> "img2"
           [] OTHER -> "empty"

\* The strings a client sends as overlayData.
DataUrlImg1 == <<"data:image/png;base64", Comma, "aW1nMQ==">>  \* canvas.toDataURL()
BareImg2 == <<"aW1nMg==">>                                      \* bare base64
DataUrlEmpty == <<"data:", Comma>>          \* toDataURL() of a canvas of size 0
EmptyString == <<>>
NotBase64 == <<"QQ">>                       \* incorrect padding

CustomMeta ==
    [overlayWidth |-> 200, overlayHeight |-> 300, flying |-> TRUE,
     colors |-> <<"red">>]

\* What a client sends about the overlay of one item.
OverlayBodies ==
    { EmptyDict,
      [overlayData |-> DataUrlImg1] @@ CustomMeta,
      [overlayData |-> BareImg2],
      [overlayData |-> DataUrlEmpty] @@ CustomMeta,
      [overlayData |-> EmptyString] @@ CustomMeta,
      [overlayData |-> NotBase64] }

\* How a client names the item: itemType may be left out.
ItemBodies ==
    { [itemName |-> "a.png"],
      [itemName |-> "a.png", itemType |-> "backgrounds"],
      [itemName |-> "a.jpg", itemType |-> "objects"],
      [itemName |-> "b.png"] }

\* Bodies save_overlay rejects.
BadBodies ==
    { EmptyDict,
      [itemType |-> "objects", overlayData |-> DataUrlImg1] @@ CustomMeta,
      [itemName |-> "", overlayData |-> DataUrlImg1],
      [itemName |-> "a.png", itemType |-> "tiles", overlayData |-> BareImg2]
          @@ CustomMeta }

\* request.json: absent (None), or a dictionary.
SaveRequests ==
    {[present |-> FALSE, body |-> EmptyDict]} \cup
    {[present |-> TRUE, body |-> b] : b \in BadBodies} \cup
    {[present |-> TRUE, body |-> i @@ o] : i \in ItemBodies, o \in OverlayBodies}

\* ---- the handlers ----

Answer(op, args, status, body) ==
    [op |-> op, args |-> args, status |-> status, body |-> body]

\* The config entry save_overlay stores: the overlay name is kept only while
\* overlay_data, as it stands after the data-URL prefix was cut off, is truthy.
SavedEntry(item_name, overlay_data, data) ==
    [overlay |-> IF overlay_data # <<>> THEN OverlayFilename(item_name) ELSE None,
     overlayWidth |-> DictGet(data, "overlayWidth", DefaultOverlayWidth),
     overlayHeight |-> DictGet(data, "overlayHeight", DefaultOverlayHeight),
     flying |-> DictGet(data, "flying", FALSE),
     colors |-> DictGet(data, "colors", <<>>)]

\* The checks save_overlay makes before it writes anything: the error it
\* answers with status 400, or None when the body passes.
SaveErrorMutNoTypeCheck(req) ==
    IF ~req.present \/ DOMAIN req.body = {} THEN "No data provided"
    ELSE IF DictGet(req.body, "itemName", "") = "" THEN "Item name required"
    ELSE None

SaveError(req) ==
    IF ~req.present \/ DOMAIN req.body = {} THEN "No data provided"
    ELSE IF DictGet(req.body, "itemName", "") = "" THEN "Item name required"
    ELSE IF DictGet(req.body, "itemType", "objects") \notin {"objects", "backgrounds"}
    THEN "Invalid item type"
    ELSE None

\* POST /api/save
SaveOverlay(req) ==
    LET data == req.body
        item_name == DictGet(data, "itemName", "")
        item_type == DictGet(data, "itemType", "objects")
        sent == DictGet(data, "overlayData", <<>>)
        \* overlay_data after "if ',' in overlay_data: ... split(',')[1]"
        overlay_data == IF sent # <<>> /\ HasComma(sent)
                        THEN SplitCommaSecond(sent) ELSE sent
        overlay_filename == OverlayFilename(item_name)
        config == load_config(configFile)
        typed == IF item_type \in DOMAIN config THEN config
                 ELSE DictSet(config, item_type, EmptyDict)
        entry == SavedEntry(item_name, overlay_data, data)
        stored == DictSet(typed, item_type, DictSet(typed[item_type], item_name, entry))
    IN
    /\ requests < MaxRequests
    /\ requests' = requests + 1
    /\ IF SaveError(req) # None
       THEN /\ response' = Answer("save", req, 400, [error |-> SaveError(req)])
            /\ UNCHANGED <<configFile, overlayFiles, lastSave>>
       ELSE IF sent # <<>> /\ B64Raises(overlay_data)
       THEN \* b64decode raises before the file is opened: Flask answers 500
            /\ response' = Answer("save", req, 500, [error |-> "Internal Server Error"])
            /\ UNCHANGED <<configFile, overlayFiles, lastSave>>
       ELSE /\ overlayFiles' =
                 IF sent # <<>>
                 THEN [overlayFiles EXCEPT ![overlay_filename] = b64decode(overlay_data)]
                 ELSE overlayFiles
            /\ configFile' = save_config(stored)
            /\ response' = Answer("save", req, 200,
                    [success |-> TRUE,
                     overlayPath |-> IF overlay_data # <<>>
                                     THEN OverlayUrl(overlay_filename) ELSE None,
                     config |-> entry])
            /\ lastSave' = [lastSave EXCEPT ![<<item_type, item_name>>] =
                                [saved |-> TRUE, data |-> data]]

\* What GET /api/config/<item_type>/<item_name> answers.
ItemConfigOf(file, item_type, item_name) ==
    DictGet(DictGet(load_config(file), item_type, EmptyDict), item_name,
            DefaultItemConfig)

\* GET /api/config/<item_type>/<item_name>
GetItemConfig(item_type, item_name) ==
    /\ requests < MaxRequests
    /\ requests' = requests + 1
    /\ response' = Answer("config", <<item_type, item_name>>, 200,
                          ItemConfigOf(configFile, item_type, item_name))
    /\ UNCHANGED <<configFile, overlayFiles, lastSave>>

\* What GET /api/overlay/<item_type>/<item_name> answers.
OverlayAnswerMutNoFileCheck(file, files, item_type, item_name) ==
    LET item_config == DictGet(DictGet(load_config(file), item_type, EmptyDict),
                               item_name, EmptyDict)
        overlay_filename == DictGet(item_config, "overlay", None)
    IN  IF overlay_filename = None THEN [exists |-> FALSE]
        ELSE [exists |-> TRUE, path |-> OverlayUrl(overlay_filename)]

OverlayAnswer(file, files, item_type, item_name) ==
    LET item_config == DictGet(DictGet(load_config(file), item_type, EmptyDict),
                               item_name, EmptyDict)
        overlay_filename == DictGet(item_config, "overlay", None)
    IN  IF overlay_filename = None THEN [exists |-> FALSE]
        ELSE IF files[overlay_filename] = NoFile THEN [exists |-> FALSE]
        ELSE [exists |-> TRUE, path |-> OverlayUrl(overlay_filename)]

\* GET /api/overlay/<item_type>/<item_name>
GetOverlay(item_type, item_name) ==
    /\ requests < MaxRequests
    /\ requests' = requests + 1
    /\ response' = Answer("overlay", <<item_type, item_name>>, 200,
                          OverlayAnswer(configFile, overlayFiles, item_type, item_name))
    /\ UNCHANGED <<configFile, overlayFiles, lastSave>>

\* The <item_type>/<item_name> URL segments a client asks for.
UrlItems ==
    { <<"objects", "a.png">>, <<"backgrounds", "a.png">>, <<"objects", "a.jpg">>,
      <<"objects", "b.png">>, <<"backgrounds", "b.png">>, <<"tiles", "a.png">> }

\* config.json when the server starts: absent, blank, cut off in the middle
\* of a json.dump, or the object an earlier run of save_config wrote.
StartConfigs ==
    {[kind |-> k, value |-> EmptyDict] : k \in {"missing", "blank", "garbage"}}
    \cup
    {save_config(
        [objects |-> [n \in {"b.png"} |->
                        [overlay |-> "b_overlay.png", overlayWidth |-> 200,
                         overlayHeight |-> 300, flying |-> TRUE,
                         colors |-> <<"red">>]]])}

NoSave == [saved |-> FALSE, data |-> EmptyDict]

\* The terrain directory when the server starts.
TerrainInit ==
    /\ configFile \in StartConfigs
    /\ overlayFiles \in {f \in [OverlayFilenames -> {NoFile, "img0"}] :
                            f["a_overlay.png"] = NoFile}
    /\ response = Answer("none", <<>>, 0, EmptyDict)
    /\ lastSave = [i \in ItemTypes \X ItemNames |-> NoSave]
    /\ requests = 0

\* The terrain editor while another program of the repository runs.
TerrainIdle ==
    /\ configFile = [kind |-> "missing", value |-> EmptyDict]
    /\ overlayFiles = [f \in OverlayFilenames |-> NoFile]
    /\ response = Answer("none", <<>>, 0, EmptyDict)
    /\ lastSave = [i \in ItemTypes \X ItemNames |-> NoSave]
    /\ requests = 0

\* The card generator while another program of the repository runs.
CardIdle ==
    /\ abilities = <<>>
    /\ yamlDoc = <<>>
    /\ yamlMap = EmptyDict
    /\ groups = [passive |-> <<>>, activated |-> <<>>, arcane |-> <<>>]
    /\ sizes = <<0, 0>>
    /\ heights = EmptyDict
    /\ measured = <<>>
    /\ drawn = [title |-> 0, body |-> 0, order |-> <<>>]
    /\ cardPc = "idle"

\* The wrapping functions while another program runs.
WrapIdle ==
    /\ wrapIn = [fn |-> "none"]
    /\ wrapWords = <<>>
    /\ wrapLine = <<>>
    /\ wrapLines = <<>>
    /\ wrapPc = "idle"

\* The signature move card while another program runs.
SigIdle ==
    /\ sigMove = [present |-> FALSE]
    /\ sigDrawn = <<>>
    /\ sigPc = "idle"

\* generate_final_character_pdf.py while another program runs.
PdfIdle ==
    /\ namesFile = <<>>
    /\ imageFiles = {}
    /\ pdfFiles = EmptyDict
    /\ pdfChunks = <<>>
    /\ pdfPc = "idle"

\* generate_pdf_with_grid while it is not called on its own.
GridIdle ==
    /\ gridIn = [images |-> <<>>]
    /\ gridPages = <<>>
    /\ gridPc = "idle"

\* generate_missing_abilities.py while another program runs.
MissIdle ==
    /\ missIn = [characters |-> <<>>]
    /\ missYaml = ""
    /\ missExisting = {}
    /\ missQueue = <<>>
    /\ missLogs = {}
    /\ missApiCalls = 0
    /\ missPc = "idle"

\* get_versions_from_pdf.py is not running.
VerIdle ==
    /\ verIn = [names |-> <<>>, pages |-> <<>>, json |-> <<>>]
    /\ verJson = <<>>
    /\ verCursor = EmptyDict
    /\ verI = 0
    /\ verPc = "idle"

\* extract_yellow_circles.py is not running.
YelIdle ==
    /\ yelIn = [json_data |-> <<>>, yellow_circles |-> <<>>]
    /\ yelJson = <<>>
    /\ yelPc = "idle"

\* No ability text is being laid out.
LayIdle ==
    /\ layIn = [kind |-> "none"]
    /\ layNeeded = 0
    /\ layY = 0
    /\ layPc = "idle"

\* No request is handled concurrently.
ConcIdle ==
    /\ concConfig = [kind |-> "missing", value |-> EmptyDict]
    /\ concOverlays = [f \in OverlayFilenames |-> NoFile]
    /\ concPc = [h \in {"h1", "h2"} |-> "off"]
    /\ concReq = [h \in {"h1", "h2"} |-> [present |-> FALSE, body |-> EmptyDict]]
    /\ concLocal = [h \in {"h1", "h2"} |-> EmptyDict]

ExceptTerrainIdle == CardIdle /\ WrapIdle /\ SigIdle /\ PdfIdle /\ GridIdle /\ MissIdle /\ VerIdle /\ YelIdle /\ LayIdle /\ ConcIdle
ExceptCardIdle == TerrainIdle /\ WrapIdle /\ SigIdle /\ PdfIdle /\ GridIdle /\ MissIdle /\ VerIdle /\ YelIdle /\ LayIdle /\ ConcIdle
ExceptWrapIdle == TerrainIdle /\ CardIdle /\ SigIdle /\ PdfIdle /\ GridIdle /\ MissIdle /\ VerIdle /\ YelIdle /\ LayIdle /\ ConcIdle
ExceptSigIdle == TerrainIdle /\ CardIdle /\ WrapIdle /\ PdfIdle /\ GridIdle /\ MissIdle /\ VerIdle /\ YelIdle /\ LayIdle /\ ConcIdle
ExceptPdfIdle == TerrainIdle /\ CardIdle /\ WrapIdle /\ SigIdle /\ GridIdle /\ MissIdle /\ VerIdle /\ YelIdle /\ LayIdle /\ ConcIdle
ExceptGridIdle == TerrainIdle /\ CardIdle /\ WrapIdle /\ SigIdle /\ PdfIdle /\ MissIdle /\ VerIdle /\ YelIdle /\ LayIdle /\ ConcIdle
ExceptMissIdle == TerrainIdle /\ CardIdle /\ WrapIdle /\ SigIdle /\ PdfIdle /\ GridIdle /\ VerIdle /\ YelIdle /\ LayIdle /\ ConcIdle
ExceptVerIdle == TerrainIdle /\ CardIdle /\ WrapIdle /\ SigIdle /\ PdfIdle /\ GridIdle /\ MissIdle /\ YelIdle /\ LayIdle /\ ConcIdle
ExceptYelIdle == TerrainIdle /\ CardIdle /\ WrapIdle /\ SigIdle /\ PdfIdle /\ GridIdle /\ MissIdle /\ VerIdle /\ LayIdle /\ ConcIdle
ExceptLayIdle == TerrainIdle /\ CardIdle /\ WrapIdle /\ SigIdle /\ PdfIdle /\ GridIdle /\ MissIdle /\ VerIdle /\ YelIdle /\ ConcIdle
ExceptConcIdle == TerrainIdle /\ CardIdle /\ WrapIdle /\ SigIdle /\ PdfIdle /\ GridIdle /\ MissIdle /\ VerIdle /\ YelIdle /\ LayIdle

Init == TerrainInit /\ ExceptTerrainIdle

Next ==
    \/ \E req \in SaveRequests : SaveOverlay(req) /\ UNCHANGED exceptTerrain
    \/ \E i \in UrlItems : GetItemConfig(i[1], i[2]) /\ UNCHANGED exceptTerrain
    \/ \E i \in UrlItems : GetOverlay(i[1], i[2]) /\ UNCHANGED exceptTerrain

Spec == Init /\ [][Next]_vars

(***************************************************************************)
(* Claims about the terrain editor (checked under Spec).                   *)
(***************************************************************************)

\* The item a GET answer is about.
AskedType == response.args[1]
AskedName == response.args[2]

\* The entry config.json holds for an item, read off the file itself.
FileHasEntry(item_type, item_name) ==
    /\ configFile.kind = "object"
    /\ item_type \in DOMAIN configFile.value
    /\ item_name \in DOMAIN configFile.value[item_type]

\* overlayData was sent: the key is there and the string is not empty.
OverlaySupplied(data) ==
    "overlayData" \in DOMAIN data /\ data.overlayData # <<>>

MetaSupplied(data) ==
    {"overlayWidth", "overlayHeight", "flying", "colors"} \subseteq DOMAIN data

\* C1 (as stated): after a successful POST /api/save for an item with
\* overlayWidth, overlayHeight, flying and colors, GET /api/config of that item
\* returns those four values, and 'overlay' is '<stem>_overlay.png' when
\* overlayData was supplied and null when it was not.
C1_SaveThenGetRoundTrip ==
    (/\ response.op = "config"
     /\ <<AskedType, AskedName>> \in DOMAIN lastSave
     /\ lastSave[<<AskedType, AskedName>>].saved
     /\ MetaSupplied(lastSave[<<AskedType, AskedName>>].data))
    => LET sent == lastSave[<<AskedType, AskedName>>].data IN
       /\ response.body.overlayWidth = sent.overlayWidth
       /\ response.body.overlayHeight = sent.overlayHeight
       /\ response.body.flying = sent.flying
       /\ response.body.colors = sent.colors
       /\ response.body.overlay =
            IF OverlaySupplied(sent)
            THEN (CASE AskedName \in {"a.png", "a.jpg"} -> "a_overlay.png"
                    [] AskedName = "b.png" -> "b_overlay.png")
            ELSE None

\* A body save_overlay has to reject: none or an empty one, no or an empty
\* itemName, or an itemType that is neither 'objects' nor 'backgrounds'.
InvalidSave(req) ==
    \/ ~req.present
    \/ DOMAIN req.body = {}
    \/ "itemName" \notin DOMAIN req.body
    \/ req.body.itemName = ""
    \/ ("itemType" \in DOMAIN req.body
            /\ req.body.itemType \notin {"objects", "backgrounds"})

\* C2: a POST /api/save with an invalid body is answered 400 with an error
\* value, and the step leaves config.json and every overlay file as they were.
C2_InvalidSaveRejected ==
    [][(response'.op = "save" /\ requests' # requests
            /\ InvalidSave(response'.args))
        => (/\ response'.status = 400
            /\ "error" \in DOMAIN response'.body
            /\ configFile' = configFile
            /\ overlayFiles' = overlayFiles)]_vars

\* C2 witness: an invalid item type, sent with overlay data after an earlier
\* save had written config.json, was answered 400.
C2_Witness ==
    /\ response.op = "save"
    /\ response.status = 400
    /\ response.body.error = "Invalid item type"
    /\ "overlayData" \in DOMAIN response.args.body
    /\ FileHasEntry("objects", "a.png")

\* The overlay file config.json names for the item exists.
OverlayOnDisk(item_type, item_name) ==
    /\ FileHasEntry(item_type, item_name)
    /\ "overlay" \in DOMAIN configFile.value[item_type][item_name]
    /\ configFile.value[item_type][item_name].overlay # None
    /\ overlayFiles[configFile.value[item_type][item_name].overlay] # NoFile

\* C3: GET /api/overlay answers exists=true with the path of the file exactly
\* when the item's config entry names an overlay file that exists in the
\* overlays directory, and exists=false in every other case.
C3_OverlayExistsIff ==
    response.op = "overlay" =>
        IF OverlayOnDisk(AskedType, AskedName)
        THEN /\ response.body.exists
             /\ response.body.path =
                  (CASE configFile.value[AskedType][AskedName].overlay = "a_overlay.png"
                          -> "/api/image/overlays/a_overlay.png"
                     [] configFile.value[AskedType][AskedName].overlay = "b_overlay.png"
                          -> "/api/image/overlays/b_overlay.png")
        ELSE response.body = [exists |-> FALSE]

\* C3 witness: the overlay of an item saved in this run was found.
C3_Witness ==
    /\ response.op = "overlay"
    /\ response.body.exists
    /\ response.args = <<"objects", "a.png">>
    /\ lastSave[<<"objects", "a.png">>].saved

\* C4: for an item without a config entry (also when config.json is missing,
\* empty or not valid JSON) GET /api/config answers the default entry, and
\* load_config of such a file is {"objects": {}, "backgrounds": {}}.
C4_DefaultEntry ==
    /\ (response.op = "config" /\ ~FileHasEntry(AskedType, AskedName))
        => response.body = [overlay |-> None, overlayWidth |-> 400,
                            overlayHeight |-> 400, flying |-> FALSE,
                            colors |-> <<>>]
    /\ configFile.kind \in {"missing", "blank", "garbage"}
        => load_config(configFile) = [objects |-> EmptyDict, backgrounds |-> EmptyDict]

\* C4 witness: the default entry was answered while config.json was not valid
\* JSON.
C4_Witness ==
    /\ response.op = "config"
    /\ configFile.kind = "garbage"
    /\ response.body.overlayWidth = 400
    /\ response.body.overlay = None

(***************************************************************************)
(* character_wide_cards/create_left_side_of_wide_character_card.py         *)
(*                                                                         *)
(* A string is the sequence of its characters; a character outside ASCII   *)
(* is written by its name: ldquo rdquo lsquo rsquo (curly quotes), ndash   *)
(* mdash (dashes), nbsp (no-break space).                                  *)
(***************************************************************************)

\* normalize_quotes, one character.
NormalizeQuotesChar(c) ==
    CASE c \in {"ldquo", "rdquo"} -> "\""
      [] c \in {"lsquo", "rsquo"} -> "'"
      [] c \in {"ndash", "mdash"} -> "-"
      [] c = "nbsp" -> " "
      [] OTHER -> c

\* normalize_quotes
normalize_quotes(s) == [i \in 1..Len(s) |-> NormalizeQuotesChar(s[i])]

\* str.isspace() of the characters of the model.
IsSpace(c) == c \in {" ", "nbsp"}

\* str.strip()
RECURSIVE LStrip(_)
LStrip(s) == IF s # <<>> /\ IsSpace(Head(s)) THEN LStrip(Tail(s)) ELSE s

RECURSIVE RStrip(_)
RStrip(s) ==
    IF s # <<>> /\ IsSpace(s[Len(s)]) THEN RStrip(SubSeq(s, 1, Len(s) - 1)) ELSE s

Strip(s) == RStrip(LStrip(s))

\* str.lower()
UpperCase == <<"A", "B", "C", "D", "E", "F", "G", "H", "I", "J", "K", "L", "M",
               "N", "O", "P", "Q", "R", "S", "T", "U", "V", "W", "X", "Y", "Z">>
LowerCase == <<"a", "b", "c", "d", "e", "f", "g", "h", "i", "j", "k", "l", "m",
               "n", "o", "p", "q", "r", "s", "t", "u", "v", "w", "x", "y", "z">>

LowerChar(c) ==
    IF \E i \in 1..Len(UpperCase) : UpperCase[i] = c
    THEN LowerCase[CHOOSE i \in 1..Len(UpperCase) : UpperCase[i] = c]
    ELSE c

Lower(s) == [i \in 1..Len(s) |-> LowerChar(s[i])]

\* re.sub(r"[\"'...]", "", s): straight and curly quotes are removed.
IsQuoteChar(c) == c \in {"\"", "'", "ldquo", "rdquo", "lsquo", "rsquo"}

RemoveQuotes(s) == SelectSeq(s, LAMBDA c : ~IsQuoteChar(c))

\* re.sub(r"\s+", " ", s): every run of white space becomes one space.
RECURSIVE CollapseSpaces(_)
CollapseSpaces(s) ==
    IF s = <<>> THEN <<>>
    ELSE IF IsSpace(Head(s))
    THEN <<" ">> \o CollapseSpaces(LStrip(s))
    ELSE <<Head(s)>> \o CollapseSpaces(Tail(s))

\* norm_key
NormKeyMutNoLower(s) ==
    CollapseSpaces(RemoveQuotes(Strip(normalize_quotes(s))))

norm_key(s) ==
    CollapseSpaces(RemoveQuotes(Lower(Strip(normalize_quotes(s)))))

\* ---- the inputs of the model ----

\* a.get("name", "Unnamed")
Unnamed == <<"U", "n", "n", "a", "m", "e", "d">>

\* Values of the YAML key 'type'.
TypeActivated == <<"a", "c", "t", "i", "v", "a", "t", "e", "d">>
TypeArcane == <<"a", "r", "c", "a", "n", "e">>
TypePassive == <<"p", "a", "s", "s", "i", "v", "e">>
TypeArcaneCapital == <<"A", "r", "c", "a", "n", "e", " ">>      \* "Arcane " (capital, trailing blank)
TypeActivatedUpper == <<"A", "C", "T", "I", "V", "A", "T", "E", "D">>

\* energyCost: null, or a number.
NoEnergy == [null |-> TRUE, value |-> 0]
Energy(n) == [null |-> FALSE, value |-> n]

\* Entries of character_data['Ability'] (the primary JSON export).
JsonAbilities ==
    { [name |-> <<"A", "b">>, energyCost |-> NoEnergy, ArcaneOutcome |-> <<>>],
      [name |-> <<"a", "rsquo", "b">>, energyCost |-> Energy(2), ArcaneOutcome |-> <<>>],
      [name |-> <<" ", "a", " ", " ", "b", " ">>, energyCost |-> Energy(1), ArcaneOutcome |-> <<"outcome">>],
      [name |-> <<"a", "ndash", "b">>, energyCost |-> NoEnergy, ArcaneOutcome |-> <<"outcome">>],
      [name |-> <<"c">>, energyCost |-> Energy(0), ArcaneOutcome |-> <<>>],
      [energyCost |-> NoEnergy, ArcaneOutcome |-> <<>>],
      [name |-> <<"a", "b">>, energyCost |-> Energy(3), ArcaneOutcome |-> <<"outcome">>] }

\* One top-level entry of abilities_strings.yaml: its key, whether its value
\* is a mapping, and the value of 'type' in it (None when the key is absent).
YamlEntry(key, type) == [key |-> key, isDict |-> TRUE, hasType |-> TRUE, type |-> type]
YamlEntryNoType(key) == [key |-> key, isDict |-> TRUE, hasType |-> FALSE, type |-> <<>>]
YamlScalar(key) == [key |-> key, isDict |-> FALSE, hasType |-> FALSE, type |-> <<>>]

\* abilities_strings.yaml, in file order (<<>>: no file, or an empty one).
YamlDocs ==
    { <<>>,
      <<YamlEntry(<<"A", "B", " ">>, TypeActivated)>>,
      <<YamlEntry(<<"a", " ", "b">>, TypeArcaneCapital)>>,
      <<YamlEntryNoType(<<"A", "-", "B">>), YamlEntry(<<"a", "b">>, TypePassive)>>,
      <<YamlScalar(<<"a", "b">>), YamlEntry(<<"c">>, TypeActivatedUpper)>>,
      <<YamlEntry(<<"ldquo", "A", "b", "rdquo">>, TypeArcane), YamlEntry(<<"a", "b">>, TypeActivated)>>,
      <<YamlEntry(<<"u", "n", "n", "a", "m", "e", "d">>, TypeArcane)>> }

\* ---- load_yaml_abilities ----

\* The definition stored for one YAML entry: setdefault("type", None) and
\* val["__name"] = normalize_quotes(str(key)).
YamlDefinition(entry) ==
    [type |-> IF entry.hasType THEN entry.type ELSE <<>>,
     name |-> normalize_quotes(entry.key)]

\* for key, val in data.items(): ABILITIES_YAML[norm_key(str(key))] = val
RECURSIVE LoadEntries(_, _)
LoadEntries(doc, map) ==
    IF doc = <<>> THEN map
    ELSE IF ~Head(doc).isDict THEN LoadEntries(Tail(doc), map)
    ELSE LoadEntries(Tail(doc),
                     DictSet(map, norm_key(Head(doc).key), YamlDefinition(Head(doc))))

load_yaml_abilities(doc) == LoadEntries(doc, EmptyDict)

\* ---- layout_and_draw_abilities: the grouping loop ----

\* What build_from_yaml appends, and to which list: t is the YAML type,
\* stripped and lower-cased.  An activated or arcane entry takes cost, range,
\* text and outcomes from the YAML definition; a passive one takes only its
\* name from it, description and once-per flags come from base_obj.
build_from_yaml(idx, name, ydef) ==
    LET t == Lower(Strip(ydef.type)) IN
    IF t = TypeActivated
    THEN [group |-> "activated",
          entry |-> [idx |-> idx, name |-> name, via |-> "yaml", content |-> "yaml"]]
    ELSE IF t = TypeArcane
    THEN [group |-> "arcane",
          entry |-> [idx |-> idx, name |-> name, via |-> "yaml", content |-> "yaml"]]
    ELSE [group |-> "passive",
          entry |-> [idx |-> idx, name |-> name, via |-> "yaml", content |-> "json"]]

\* The else branch of the loop body: grouping by the JSON fields.
BuildFromJsonMutArcaneFirst(idx, name, a) ==
    IF a.ArcaneOutcome # <<>>
    THEN [group |-> "arcane",
          entry |-> [idx |-> idx, name |-> name, via |-> "json", content |-> "json"]]
    ELSE IF a.energyCost.null
    THEN [group |-> "passive",
          entry |-> [idx |-> idx, name |-> name, via |-> "json", content |-> "json"]]
    ELSE [group |-> "activated",
          entry |-> [idx |-> idx, name |-> name, via |-> "json", content |-> "json"]]

BuildFromJson(idx, name, a) ==
    IF a.energyCost.null
    THEN [group |-> "passive",
          entry |-> [idx |-> idx, name |-> name, via |-> "json", content |-> "json"]]
    ELSE IF a.ArcaneOutcome # <<>>
    THEN [group |-> "arcane",
          entry |-> [idx |-> idx, name |-> name, via |-> "json", content |-> "json"]]
    ELSE [group |-> "activated",
          entry |-> [idx |-> idx, name |-> name, via |-> "json", content |-> "json"]]

\* The body of "for a in abilities".
BuildAbility(idx, a, yaml_map) ==
    LET name == normalize_quotes(DictGet(a, "name", Unnamed))
        key == norm_key(name)
    IN  IF key \in DOMAIN yaml_map
        THEN build_from_yaml(idx, yaml_map[key].name, yaml_map[key])
        ELSE BuildFromJson(idx, name, a)

NoGroups == [passive |-> <<>>, activated |-> <<>>, arcane |-> <<>>]

\* "for a in abilities": every ability is appended to one of the three lists.
RECURSIVE GroupFrom(_, _, _, _)
GroupFrom(abils, idx, yaml_map, acc) ==
    IF idx > Len(abils) THEN acc
    ELSE LET built == BuildAbility(idx, abils[idx], yaml_map) IN
         GroupFrom(abils, idx + 1, yaml_map,
                   [acc EXCEPT ![built.group] = Append(@, built.entry)])

\* ---- layout_and_draw_abilities: auto-shrink and the draw pass ----

StartTitleSize == 24
StartBodySize == 23
MinSize == 12

\* area_bottom, the lower edge of the abilities area.
AreaBottom == 500

TitleSizes == MinSize..StartTitleSize

MaxMutSecond(a, b) == b

Max(a, b) == IF a >= b THEN a ELSE b

\* measure(title_size, body_size): the height the text needs.  It depends on
\* the font metrics of the imaging library; the model draws one height for
\* each title size (the loop never measures a title size twice).
measure(title_size, body_size) == heights[title_size]

\* The exit test of "while True".
ShrinkDoneMutEitherAtMin(needed, title_size, body_size) ==
    needed <= AreaBottom - 2 \/ (title_size <= MinSize \/ body_size <= MinSize)

ShrinkDone(needed, title_size, body_size) ==
    needed <= AreaBottom - 2 \/ (title_size <= MinSize /\ body_size <= MinSize)

\* The order of the three loops of the draw pass.
DrawOrder(g) == g.passive \o g.activated \o g.arcane

\* main: load_yaml_abilities(yaml_path)
LoadYaml ==
    /\ cardPc = "start"
    /\ yamlMap' = load_yaml_abilities(yamlDoc)
    /\ cardPc' = "layout"
    /\ UNCHANGED <<abilities, yamlDoc, groups, sizes, heights, measured, drawn>>

\* layout_and_draw_abilities up to the while loop: return at once for an
\* empty list, else fill passive, activated and arcane.
BuildGroups ==
    /\ cardPc = "layout"
    /\ IF abilities = <<>>
       THEN /\ cardPc' = "done"
            /\ UNCHANGED <<groups, sizes>>
       ELSE /\ groups' = GroupFrom(abilities, 1, yamlMap, NoGroups)
            /\ sizes' = <<StartTitleSize, StartBodySize>>
            /\ cardPc' = "fit"
    /\ UNCHANGED <<abilities, yamlDoc, yamlMap, heights, measured, drawn>>

\* One turn of "while True": measure, then leave the loop or shrink by one.
MeasureStep ==
    /\ cardPc = "fit"
    /\ LET needed == measure(sizes[1], sizes[2]) IN
       /\ measured' = Append(measured, <<sizes[1], sizes[2], needed>>)
       /\ IF ShrinkDone(needed, sizes[1], sizes[2])
          THEN /\ cardPc' = "draw"
               /\ UNCHANGED sizes
          ELSE /\ sizes' = <<Max(MinSize, sizes[1] - 1), Max(MinSize, sizes[2] - 1)>>
               /\ UNCHANGED cardPc
    /\ UNCHANGED <<abilities, yamlDoc, yamlMap, groups, heights, drawn>>

\* The draw pass: fonts of the sizes the loop ended with; passive, then
\* activated, then arcane abilities.
DrawPass ==
    /\ cardPc = "draw"
    /\ drawn' = [title |-> sizes[1], body |-> sizes[2], order |-> DrawOrder(groups)]
    /\ cardPc' = "done"
    /\ UNCHANGED <<abilities, yamlDoc, yamlMap, groups, sizes, heights, measured>>

\* Lists of at most n abilities.
RECURSIVE ListsUpTo(_)
ListsUpTo(n) ==
    IF n = 0 THEN {<<>>}
    ELSE LET shorter == ListsUpTo(n - 1) IN
         shorter \cup {Append(l, a) : l \in {x \in shorter : Len(x) = n - 1},
                                      a \in JsonAbilities}

\* Heights for which every size fits, no size fits, or sizes up to 20 fit.
SampleHeights ==
    { [t \in TitleSizes |-> AreaBottom - 2],
      [t \in TitleSizes |-> AreaBottom - 1],
      [t \in TitleSizes |-> IF t <= 20 THEN AreaBottom - 10 ELSE AreaBottom + 40] }

NotDrawn == [title |-> 0, body |-> 0, order |-> <<>>]

\* One character: any short ability list, any of the YAML files.
CardInit ==
    /\ abilities \in ListsUpTo(MaxAbilities)
    /\ yamlDoc \in YamlDocs
    /\ yamlMap = EmptyDict
    /\ groups = NoGroups
    /\ sizes = <<0, 0>>
    /\ heights \in SampleHeights
    /\ measured = <<>>
    /\ drawn = NotDrawn
    /\ cardPc = "start"

\* One character, any outcome of the measure pass at every size.
ShrinkInit ==
    /\ abilities \in {<<a>> : a \in {x \in JsonAbilities : x.ArcaneOutcome = <<>>}}
    /\ yamlDoc = <<>>
    /\ yamlMap = EmptyDict
    /\ groups = NoGroups
    /\ sizes = <<0, 0>>
    /\ heights \in [TitleSizes -> {AreaBottom - 2, AreaBottom - 1}]
    /\ measured = <<>>
    /\ drawn = NotDrawn
    /\ cardPc = "start"

CardNext ==
    \/ LoadYaml /\ UNCHANGED exceptCard
    \/ BuildGroups /\ UNCHANGED exceptCard
    \/ MeasureStep /\ UNCHANGED exceptCard
    \/ DrawPass /\ UNCHANGED exceptCard

InitCard == CardInit /\ ExceptCardIdle

InitShrink == ShrinkInit /\ ExceptCardIdle

SpecCard == InitCard /\ [][CardNext]_vars

SpecShrink == InitShrink /\ [][CardNext]_vars

(***************************************************************************)
(* Claims about the abilities area of the left-side card.                  *)
(***************************************************************************)

\* norm_key of the ability names and YAML keys of the model, as the program
\* computes it (a table of the results of the Python function).
ExpectedKey(s) ==
    CASE s = <<"A", "b">> -> <<"a", "b">>
      [] s = <<"a", "rsquo", "b">> -> <<"a", "b">>
      [] s = <<" ", "a", " ", " ", "b", " ">> -> <<"a", " ", "b">>
      [] s = <<"a", "ndash", "b">> -> <<"a", "-", "b">>
      [] s = <<"U", "n", "n", "a", "m", "e", "d">> -> <<"u", "n", "n", "a", "m", "e", "d">>
      [] s = <<"A", "B", " ">> -> <<"a", "b">>
      [] s = <<"A", "-", "B">> -> <<"a", "-", "b">>
      [] s = <<"ldquo", "A", "b", "rdquo">> -> <<"a", "b">>
      [] OTHER -> s

\* normalize_quotes of the same strings (a table as well).
ExpectedQuotes(s) ==
    CASE s = <<"a", "rsquo", "b">> -> <<"a", "'", "b">>
      [] s = <<"a", "ndash", "b">> -> <<"a", "-", "b">>
      [] s = <<"ldquo", "A", "b", "rdquo">> -> <<"\"", "A", "b", "\"">>
      [] OTHER -> s

\* The group a YAML 'type' stands for, trimmed and lower-cased.
ExpectedGroup(y) ==
    IF y.hasType /\ y.type \in {TypeActivated, TypeActivatedUpper} THEN "activated"
    ELSE IF y.hasType /\ y.type \in {TypeArcane, TypeArcaneCapital} THEN "arcane"
    ELSE "passive"

GroupNames == {"passive", "activated", "arcane"}

AbilityName(i) == IF "name" \in DOMAIN abilities[i] THEN abilities[i].name ELSE Unnamed

\* The entries of abilities_strings.yaml whose key normalises to that of
\* ability i; the last of them is the one the loaded map holds.
YamlMatches(i) ==
    {j \in 1..Len(yamlDoc) :
        yamlDoc[j].isDict /\ ExpectedKey(yamlDoc[j].key) = ExpectedKey(AbilityName(i))}

LastOf(S) == CHOOSE j \in S : \A k \in S : k <= j

\* Where ability i was put: pairs of a group and the entry built for it.
Placed(i) ==
    UNION {{<<g, groups[g][j]>> : j \in {k \in 1..Len(groups[g]) : groups[g][k].idx = i}}
           : g \in GroupNames}

Grouped == cardPc \in {"fit", "draw", "done"} /\ abilities # <<>>

\* C5 as stated: an ability whose normalised name is a key of the YAML map is
\* built from the YAML definition (whatever its type), shown under the YAML
\* key's name and grouped by the YAML type; any other ability is built from
\* the JSON fields only.
C5_BuiltFromYamlDefinition ==
    Grouped =>
        \A i \in 1..Len(abilities) :
            IF YamlMatches(i) # {}
            THEN LET y == yamlDoc[LastOf(YamlMatches(i))] IN
                 Placed(i) = {<<ExpectedGroup(y),
                                [idx |-> i, name |-> ExpectedQuotes(y.key),
                                 via |-> "yaml", content |-> "yaml"]>>}
            ELSE \E g \in GroupNames :
                 Placed(i) = {<<g, [idx |-> i, name |-> ExpectedQuotes(AbilityName(i)),
                                    via |-> "json", content |-> "json"]>>}

\* C5, amended: an ability whose normalised name is a key of the YAML map is
\* grouped by the YAML type (trimmed, lower-cased) and shown under the YAML
\* key's name; an activated or arcane one is built from the YAML definition,
\* a passive one takes its description and once-per flags from the JSON
\* fields.  Any other ability is built from the JSON fields only.
C5_YamlOverride ==
    Grouped =>
        \A i \in 1..Len(abilities) :
            IF YamlMatches(i) # {}
            THEN LET y == yamlDoc[LastOf(YamlMatches(i))]
                     g == ExpectedGroup(y)
                 IN  Placed(i) = {<<g, [idx |-> i, name |-> ExpectedQuotes(y.key),
                                        via |-> "yaml",
                                        content |-> IF g = "passive" THEN "json"
                                                    ELSE "yaml"]>>}
            ELSE \E g \in GroupNames :
                 Placed(i) = {<<g, [idx |-> i, name |-> ExpectedQuotes(AbilityName(i)),
                                    via |-> "json", content |-> "json"]>>}

\* C5 witness: the JSON ability "Ab" (no energy cost) was drawn as the
\* activated ability "AB " of the YAML file, next to one built from JSON.
C5_Witness ==
    /\ cardPc = "done"
    /\ Len(abilities) = 2
    /\ abilities[1].energyCost.null
    /\ Len(groups.activated) = 1
    /\ groups.activated[1] = [idx |-> 1, name |-> <<"A", "B", " ">>,
                              via |-> "yaml", content |-> "yaml"]
    /\ \E g \in GroupNames : \E j \in 1..Len(groups[g]) : groups[g][j].via = "json"

GroupRank(g) == CASE g = "passive" -> 1 [] g = "activated" -> 2 [] g = "arcane" -> 3

GroupOfIdx(i) == CHOOSE g \in GroupNames : \E j \in 1..Len(groups[g]) : groups[g][j].idx = i

\* C6: every ability is in exactly one of passive, activated, arcane (the
\* sizes sum to the number of abilities); without a YAML override energyCost
\* null is passive, energyCost with a non-empty ArcaneOutcome is arcane, any
\* other is activated; the draw pass draws passive, activated, arcane in this
\* order, each group in input order.
C6_GroupsAndDrawOrder ==
    Grouped =>
        /\ Len(groups.passive) + Len(groups.activated) + Len(groups.arcane)
             = Len(abilities)
        /\ \A i \in 1..Len(abilities) :
             Cardinality({<<g, j>> \in GroupNames \X (1..Len(abilities)) :
                             j <= Len(groups[g]) /\ groups[g][j].idx = i}) = 1
        /\ \A g \in GroupNames : \A j, k \in 1..Len(groups[g]) :
             j < k => groups[g][j].idx < groups[g][k].idx
        /\ \A i \in 1..Len(abilities) :
             YamlMatches(i) = {} =>
                GroupOfIdx(i) = (IF abilities[i].energyCost.null THEN "passive"
                                 ELSE IF abilities[i].ArcaneOutcome # <<>> THEN "arcane"
                                 ELSE "activated")
        /\ cardPc = "done" =>
             /\ Len(drawn.order) = Len(abilities)
             /\ \A j, k \in 1..Len(drawn.order) :
                  j < k =>
                    LET gj == GroupRank(GroupOfIdx(drawn.order[j].idx))
                        gk == GroupRank(GroupOfIdx(drawn.order[k].idx))
                    IN  gj < gk \/ (gj = gk /\ drawn.order[j].idx < drawn.order[k].idx)

\* C6 witness: the list held an arcane ability before a passive one, both
\* grouped by their JSON fields, and the passive one was drawn first.
C6_Witness ==
    /\ cardPc = "done"
    /\ Len(drawn.order) = 2
    /\ drawn.order[1].idx = 2
    /\ drawn.order[1].via = "json"
    /\ drawn.order[2].via = "json"
    /\ Len(groups.passive) = 1
    /\ Len(groups.arcane) = 1

\* The sizes the loop goes through.
ShrinkPairs ==
    << <<24, 23>>, <<23, 22>>, <<22, 21>>, <<21, 20>>, <<20, 19>>, <<19, 18>>,
       <<18, 17>>, <<17, 16>>, <<16, 15>>, <<15, 14>>, <<14, 13>>, <<13, 12>>,
       <<12, 12>> >>

FittingPairs == {i \in 1..Len(ShrinkPairs) :
                    measure(ShrinkPairs[i][1], ShrinkPairs[i][2]) <= AreaBottom - 2}

FirstFit ==
    IF FittingPairs = {} THEN <<12, 12>>
    ELSE ShrinkPairs[CHOOSE i \in FittingPairs : \A k \in FittingPairs : i <= k]

\* C7: the draw pass uses the first pair of (24,23), (23,22), ..., (13,12),
\* (12,12) whose measured height is <= area_bottom - 2, and (12,12) when no
\* pair fits.
C7_FirstFittingSizes ==
    /\ (cardPc = "draw" /\ abilities # <<>>) => sizes = FirstFit
    /\ (cardPc = "done" /\ abilities # <<>>) => <<drawn.title, drawn.body>> = FirstFit

\* C7 witness: sizes down to (18,17) did not fit, (17,16) did and was used,
\* though the text would not have fitted at (12,12).
C7_Witness ==
    /\ cardPc = "done"
    /\ drawn.title = 17
    /\ drawn.body = 16
    /\ Len(measured) = 8
    /\ heights[12] > AreaBottom - 2

(***************************************************************************)
(* wrap_text (create_left_side_of_wide_character_card.py) and              *)
(* wrap_text_to_lines (create_wide_character_card.v4.py)                   *)
(*                                                                         *)
(* The texts of the model are made of the letter x, the glyph "emptyset"   *)
(* (the null sign of the damage tables) and the blank.                     *)
(***************************************************************************)

TextChars == {"x", "emptyset", " "}

Texts == UNION {[1..n -> TextChars] : n \in 0..MaxTextLen}

\* A font: the advance of each character, the width of the null glyph in the
\* font 1.25 times as large, and what the shaping of a whole string gains on
\* an x followed by the null glyph.
Fonts ==
    { [x |-> 1, emptyset |-> 3, emptysetBig |-> 4, space |-> 1, kern |-> 0],
      [x |-> 2, emptyset |-> 2, emptysetBig |-> 3, space |-> 1, kern |-> 1] }

\* wrap_text.measure_width: the sum of the widths of the characters, the null
\* glyph in the larger font.
RECURSIVE measure_width(_, _)
measure_width(t, font) ==
    IF t = <<>> THEN 0
    ELSE (CASE Head(t) = "x" -> font.x
            [] Head(t) = "emptyset" -> font.emptysetBig
            [] OTHER -> font.space)
         + measure_width(Tail(t), font)

\* draw.textbbox((0, 0), test_line, font=font): bbox[2] - bbox[0] of the
\* whole string.
RECURSIVE textbbox_width(_, _)
textbbox_width(t, font) ==
    IF t = <<>> THEN 0
    ELSE (CASE Head(t) = "x" -> font.x
            [] Head(t) = "emptyset" -> font.emptyset
            [] OTHER -> font.space)
         - (IF Len(t) > 1 /\ t[1] = "x" /\ t[2] = "emptyset" THEN font.kern ELSE 0)
         + textbbox_width(Tail(t), font)

\* The place of the first blank of s, 0 when it has none.
FirstBlank(s) ==
    IF \E i \in 1..Len(s) : s[i] = " "
    THEN CHOOSE i \in 1..Len(s) : s[i] = " " /\ \A j \in 1..(i - 1) : s[j] # " "
    ELSE 0

\* text.split(' '): cut at every blank, empty pieces kept.
RECURSIVE SplitOnSpace(_)
SplitOnSpace(s) ==
    IF FirstBlank(s) = 0 THEN <<s>>
    ELSE <<SubSeq(s, 1, FirstBlank(s) - 1)>>
         \o SplitOnSpace(SubSeq(s, FirstBlank(s) + 1, Len(s)))

\* text.split(): cut at runs of white space, no empty pieces.
RECURSIVE SplitWhitespace(_)
SplitWhitespace(s) ==
    LET t == LStrip(s) IN
    IF t = <<>> THEN <<>>
    ELSE IF FirstBlank(t) = 0 THEN <<t>>
    ELSE <<SubSeq(t, 1, FirstBlank(t) - 1)>>
         \o SplitWhitespace(SubSeq(t, FirstBlank(t) + 1, Len(t)))

\* wrap_text: "measure_width(test) <= max_width or not line".
KeepOnLineMutTwiceAsWide(test, line, in) ==
    measure_width(test, in.font) <= 2 * in.max_width \/ line = <<>>

KeepOnLine(test, line, in) ==
    measure_width(test, in.font) <= in.max_width \/ line = <<>>

\* wrap_text up to the loop.
WrapTextStart ==
    /\ wrapPc = "start"
    /\ wrapIn.fn = "wrap_text"
    /\ IF wrapIn.text = <<>>
       THEN /\ wrapPc' = "done"
            /\ UNCHANGED wrapWords
       ELSE /\ wrapWords' = SplitOnSpace(wrapIn.text)
            /\ wrapPc' = "loop"
    /\ wrapLine' = <<>>
    /\ wrapLines' = <<>>
    /\ UNCHANGED wrapIn

\* wrap_text: one turn of "for w in words".
WrapTextWord ==
    /\ wrapPc = "loop"
    /\ wrapIn.fn = "wrap_text"
    /\ wrapWords # <<>>
    /\ LET w == Head(wrapWords)
           test == IF wrapLine # <<>> THEN wrapLine \o <<" ">> \o w ELSE w
       IN  IF KeepOnLine(test, wrapLine, wrapIn)
           THEN /\ wrapLine' = test
                /\ UNCHANGED wrapLines
           ELSE /\ wrapLines' = Append(wrapLines, wrapLine)
                /\ wrapLine' = w
    /\ wrapWords' = Tail(wrapWords)
    /\ UNCHANGED <<wrapIn, wrapPc>>

\* wrap_text after the loop.
WrapTextEnd ==
    /\ wrapPc = "loop"
    /\ wrapIn.fn = "wrap_text"
    /\ wrapWords = <<>>
    /\ wrapLines' = IF wrapLine # <<>> THEN Append(wrapLines, wrapLine) ELSE wrapLines
    /\ wrapPc' = "done"
    /\ UNCHANGED <<wrapIn, wrapWords, wrapLine>>

\* wrap_text_to_lines up to the loop.
WrapToLinesStart ==
    /\ wrapPc = "start"
    /\ wrapIn.fn = "wrap_text_to_lines"
    /\ IF wrapIn.text = <<>> \/ Strip(wrapIn.text) = <<>>
       THEN /\ wrapPc' = "done"
            /\ UNCHANGED wrapWords
       ELSE /\ wrapWords' = SplitWhitespace(wrapIn.text)
            /\ wrapPc' = "loop"
    /\ wrapLine' = <<>>
    /\ wrapLines' = <<>>
    /\ UNCHANGED wrapIn

\* wrap_text_to_lines: one turn of "for word in words".
WrapToLinesWord ==
    /\ wrapPc = "loop"
    /\ wrapIn.fn = "wrap_text_to_lines"
    /\ wrapWords # <<>>
    /\ LET word == Head(wrapWords)
           test_line == wrapLine \o (IF wrapLine # <<>> THEN <<" ">> ELSE <<>>) \o word
       IN  IF textbbox_width(test_line, wrapIn.font) <= wrapIn.max_width
           THEN /\ wrapLine' = test_line
                /\ UNCHANGED wrapLines
           ELSE IF wrapLine # <<>>
           THEN /\ wrapLines' = Append(wrapLines, wrapLine)
                /\ wrapLine' = word
           ELSE /\ wrapLines' = Append(wrapLines, word)
                /\ wrapLine' = <<>>
    /\ wrapWords' = Tail(wrapWords)
    /\ UNCHANGED <<wrapIn, wrapPc>>

\* wrap_text_to_lines after the loop.
WrapToLinesEnd ==
    /\ wrapPc = "loop"
    /\ wrapIn.fn = "wrap_text_to_lines"
    /\ wrapWords = <<>>
    /\ wrapLines' = IF wrapLine # <<>> THEN Append(wrapLines, wrapLine) ELSE wrapLines
    /\ wrapPc' = "done"
    /\ UNCHANGED <<wrapIn, wrapWords, wrapLine>>

\* One call of one of the two functions.
WrapInit ==
    /\ wrapIn \in [fn : {"wrap_text", "wrap_text_to_lines"}, text : Texts,
                   font : Fonts, max_width : 0..MaxWidth]
    /\ wrapWords = <<>>
    /\ wrapLine = <<>>
    /\ wrapLines = <<>>
    /\ wrapPc = "start"

InitWrap == WrapInit /\ ExceptWrapIdle

WrapNext ==
    \/ WrapTextStart /\ UNCHANGED exceptWrap
    \/ WrapTextWord /\ UNCHANGED exceptWrap
    \/ WrapTextEnd /\ UNCHANGED exceptWrap
    \/ WrapToLinesStart /\ UNCHANGED exceptWrap
    \/ WrapToLinesWord /\ UNCHANGED exceptWrap
    \/ WrapToLinesEnd /\ UNCHANGED exceptWrap

SpecWrap == InitWrap /\ [][WrapNext]_vars

\* The words of a string: its longest runs of characters other than blanks.
WordStartsOf(s) == {i \in 1..Len(s) : s[i] # " " /\ (i = 1 \/ s[i - 1] = " ")}

WordEndFrom(s, i) ==
    CHOOSE j \in i..Len(s) :
        /\ \A k \in i..j : s[k] # " "
        /\ (j = Len(s) \/ s[j + 1] = " ")

WordsOf(s) ==
    [n \in 1..Cardinality(WordStartsOf(s)) |->
        LET i == CHOOSE k \in WordStartsOf(s) :
                     Cardinality({m \in WordStartsOf(s) : m < k}) = n - 1
        IN  SubSeq(s, i, WordEndFrom(s, i))]

RECURSIVE WordsOfLines(_)
WordsOfLines(lines) ==
    IF lines = <<>> THEN <<>> ELSE WordsOf(Head(lines)) \o WordsOfLines(Tail(lines))

\* The width of a line as the function that made it measures it.
LineWidth(line) ==
    IF wrapIn.fn = "wrap_text" THEN measure_width(line, wrapIn.font)
    ELSE textbbox_width(line, wrapIn.font)

\* C8: wrap_text and wrap_text_to_lines never break a word: the words of the
\* output lines, read line after line, are the words of the input in input
\* order, and a line is at most max_width wide or is one single word.
C8_WordsNeverBroken ==
    wrapPc = "done" =>
        /\ WordsOfLines(wrapLines) = WordsOf(wrapIn.text)
        /\ \A l \in 1..Len(wrapLines) :
             \/ LineWidth(wrapLines[l]) <= wrapIn.max_width
             \/ WordsOf(wrapLines[l]) = <<wrapLines[l]>>

\* C8 witness: wrap_text made several lines, one a single word wider than
\* max_width, another of two words.
C8_Witness ==
    /\ wrapPc = "done"
    /\ wrapIn.fn = "wrap_text"
    /\ \E l \in 1..Len(wrapLines) : LineWidth(wrapLines[l]) > wrapIn.max_width
    /\ \E l \in 1..Len(wrapLines) : Len(WordsOf(wrapLines[l])) = 2

(***************************************************************************)
(* draw_signature_move_card (create_wide_character_card.v4.py)             *)
(***************************************************************************)

\* A damage value of the JSON export: null (or the key is absent), or a number.
NoDamage == [null |-> TRUE, value |-> 0]
Damage(n) == [null |-> FALSE, value |-> n]

DamageValues == {NoDamage, Damage(0), Damage(4), Damage(12)}

\* The keys of the damage values, in the order of the list "moves".
DamageKeys ==
    <<"highGuardDamage", "fallingSwingDamage", "thrustDamage",
      "sweepingCutDamage", "risingAttackDamage", "lowGuardDamage">>

MoveNames ==
    <<"High Guard", "Falling Swing", "Thrust", "Sweeping Cut", "Rising Attack",
      "Low Guard">>

\* signature_move.get('name'): null (or absent), or a string.
NoName == [null |-> TRUE, value |-> <<>>]
Name(chars) == [null |-> FALSE, value |-> chars]

SignatureNames ==
    { NoName,
      Name(<<>>),
      Name(<<"N", "o", "n", "e">>),
      Name(<<"n", "o", "n", "e">>),
      Name(<<"N", "O", " ", "S", "I", "G", "N", "A", "T", "U", "R", "E">>),
      Name(<<"N", "o", " ", "S", "i", "g", "n", "a", "t", "u", "r", "e">>),
      Name(<<"n", "o", "n", "e", "s">>),
      Name(<<"S", "l", "a", "s", "h">>) }

\* character_data.get('SignatureMove', {}): the key absent or null, or an
\* object; only three of the six damage values vary in the model, the others
\* repeat them.
SignatureMoves ==
    { [isDict |-> FALSE, name |-> NoName, damage |-> [k \in 1..6 |-> NoDamage]] }
    \cup { [isDict |-> TRUE, name |-> n,
            damage |-> [k \in 1..6 |-> d[((k - 1) % 3) + 1]]] :
           n \in SignatureNames, d \in [1..3 -> DamageValues] }
    \cup { [isDict |-> TRUE, name |-> Name(<<"S", "l", "a", "s", "h">>),
            damage |-> [k \in 1..6 |-> IF k = j THEN Damage(0) ELSE NoDamage]] :
           j \in 1..6 }

\* str(damage) of a number that is not negative.
Digits == <<"0", "1", "2", "3", "4", "5", "6", "7", "8", "9">>

RECURSIVE Str(_)
Str(n) ==
    IF n < 10 THEN <<Digits[n + 1]>>
    ELSE Str(n \div 10) \o <<Digits[(n % 10) + 1]>>

\* damage_text = str(damage) if damage is not None else the null glyph
DamageTextMutFalsy(damage) ==
    IF ~damage.null /\ damage.value # 0 THEN Str(damage.value) ELSE <<"emptyset">>

DamageText(damage) ==
    IF ~damage.null THEN Str(damage.value) ELSE <<"emptyset">>

\* "not signature_move or not signature_move.get('name')", and the test of
\* the lower-cased title.
NoSignatureMove(move) ==
    \/ ~move.isDict
    \/ move.name.null
    \/ move.name.value = <<>>
    \/ Lower(move.name.value) \in
         { <<"n", "o", " ", "s", "i", "g", "n", "a", "t", "u", "r", "e">>,
           <<"n", "o", "n", "e">> }

\* What draw.text is called with: a fixed label and, where the text comes
\* from the data, its characters.
DrawnText(label, chars) == [label |-> label, chars |-> chars]

RowsDrawn == Len(SelectSeq(sigDrawn, LAMBDA t : \E k \in 1..6 : t.label = MoveNames[k]))

\* The two early returns, or the title and the header row of the table.
SigBegin ==
    /\ sigPc = "start"
    /\ IF NoSignatureMove(sigMove)
       THEN /\ sigDrawn' = <<DrawnText("No Signature Move", <<>>)>>
            /\ sigPc' = "done"
       ELSE /\ sigDrawn' = <<DrawnText("title", sigMove.name.value),
                             DrawnText("Opponent Plays", <<>>),
                             DrawnText("Deal", <<>>)>>
            /\ sigPc' = "rows"
    /\ UNCHANGED sigMove

\* One turn of "for move_name, damage in moves".
SigRow ==
    /\ sigPc = "rows"
    /\ LET k == RowsDrawn + 1 IN
       /\ sigDrawn' = Append(sigDrawn, DrawnText(MoveNames[k], DamageText(sigMove.damage[k])))
       /\ sigPc' = IF k = Len(MoveNames) THEN "done" ELSE "rows"
    /\ UNCHANGED sigMove

SigInit ==
    /\ sigMove \in SignatureMoves
    /\ sigDrawn = <<>>
    /\ sigPc = "start"

InitSig == SigInit /\ ExceptSigIdle

SigNext ==
    \/ SigBegin /\ UNCHANGED exceptSig
    \/ SigRow /\ UNCHANGED exceptSig

SpecSig == InitSig /\ [][SigNext]_vars

\* The names that stand for "no signature move", in the spellings of the
\* model, and the damage texts of the values of the model.
NoSignatureSpellings ==
    { <<"N", "o", "n", "e">>, <<"n", "o", "n", "e">>,
      <<"N", "O", " ", "S", "I", "G", "N", "A", "T", "U", "R", "E">>,
      <<"N", "o", " ", "S", "i", "g", "n", "a", "t", "u", "r", "e">> }

ExpectedDamageText(damage) ==
    CASE damage = NoDamage -> <<"emptyset">>
      [] damage = Damage(0) -> <<"0">>
      [] damage = Damage(4) -> <<"4">>
      [] damage = Damage(12) -> <<"1", "2">>

\* C9: a signature move with a name other than 'no signature' / 'none' (any
\* case) gets six rows, High Guard, Falling Swing, Thrust, Sweeping Cut,
\* Rising Attack, Low Guard, each with its damage or the null glyph; a
\* missing, unnamed or so named move gets the text 'No Signature Move' alone.
C9_SignatureTable ==
    sigPc = "done" =>
        IF \/ ~sigMove.isDict
           \/ sigMove.name.null
           \/ sigMove.name.value = <<>>
           \/ sigMove.name.value \in NoSignatureSpellings
        THEN sigDrawn = <<[label |-> "No Signature Move", chars |-> <<>>]>>
        ELSE /\ Len(sigDrawn) = 9
             /\ sigDrawn[1] = [label |-> "title", chars |-> sigMove.name.value]
             /\ SubSeq(sigDrawn, 4, 9) =
                  << [label |-> "High Guard", chars |-> ExpectedDamageText(sigMove.damage[1])],
                     [label |-> "Falling Swing", chars |-> ExpectedDamageText(sigMove.damage[2])],
                     [label |-> "Thrust", chars |-> ExpectedDamageText(sigMove.damage[3])],
                     [label |-> "Sweeping Cut", chars |-> ExpectedDamageText(sigMove.damage[4])],
                     [label |-> "Rising Attack", chars |-> ExpectedDamageText(sigMove.damage[5])],
                     [label |-> "Low Guard", chars |-> ExpectedDamageText(sigMove.damage[6])] >>

\* C9 witness: a table was drawn with a damage of 0, a null damage and a
\* damage of two digits.
C9_Witness ==
    /\ sigPc = "done"
    /\ Len(sigDrawn) = 9
    /\ sigDrawn[4].chars = <<"0">>
    /\ sigDrawn[5].chars = <<"emptyset">>
    /\ sigDrawn[6].chars = <<"1", "2">>

(***************************************************************************)
(* character_wide_cards/generate_final_character_pdf.py                    *)
(***************************************************************************)

\* The lines names_by_page_in_pdf.txt is made of in the model: an empty line
\* and three names, one written with a trailing blank.
NameLines ==
    { <<>>, <<"Z", "e", "d">>, <<"a", "b", "e">>, <<"B", "o", " ">> }

NameFiles == UNION {[1..n -> NameLines] : n \in 0..MaxLines}

\* The characters that may have <name>_wide_card_with_text.png.
CardNames == { <<"Z", "e", "d">>, <<"a", "b", "e">>, <<"B", "o">> }

\* read_names_in_order: the stripped lines that are not empty.
RECURSIVE read_names_in_order(_)
read_names_in_order(lines) ==
    IF lines = <<>> THEN <<>>
    ELSE IF Strip(Head(lines)) # <<>>
    THEN <<Strip(Head(lines))>> \o read_names_in_order(Tail(lines))
    ELSE read_names_in_order(Tail(lines))

\* Code point order of the letters of one case, the blank before them.
CharRank(c) ==
    IF \E i \in 1..Len(LowerCase) : LowerCase[i] = c
    THEN CHOOSE i \in 1..Len(LowerCase) : LowerCase[i] = c
    ELSE 0

\* a < b for strings of lower-case letters.
RECURSIVE StrLess(_, _)
StrLess(a, b) ==
    IF b = <<>> THEN FALSE
    ELSE IF a = <<>> THEN TRUE
    ELSE IF CharRank(Head(a)) # CharRank(Head(b))
    THEN CharRank(Head(a)) < CharRank(Head(b))
    ELSE StrLess(Tail(a), Tail(b))

\* str.casefold of a name of the model.
casefold(s) == Lower(s)

\* sorted(..., key=str.casefold) is stable: n goes behind every element whose
\* key is not greater.
RECURSIVE InsertSorted(_, _)
InsertSorted(sorted, n) ==
    IF sorted = <<>> THEN <<n>>
    ELSE IF StrLess(casefold(n), casefold(Head(sorted)))
    THEN <<n>> \o sorted
    ELSE <<Head(sorted)>> \o InsertSorted(Tail(sorted), n)

RECURSIVE SortedFrom(_, _)
SortedFrom(seq, acc) ==
    IF seq = <<>> THEN acc ELSE SortedFrom(Tail(seq), InsertSorted(acc, Head(seq)))

\* The order main gives the matching names.
PdfOrder(matching_names) == SortedFrom(matching_names, <<>>)

NumChunks == 5

\* split_into_chunks(seq, num_chunks)
ChunkSize(n, i) == (n \div NumChunks) + (IF i - 1 < n % NumChunks THEN 1 ELSE 0)

RECURSIVE ChunkStart(_, _)
ChunkStart(n, i) == IF i = 1 THEN 0 ELSE ChunkStart(n, i - 1) + ChunkSize(n, i - 1)

split_into_chunks(seq) ==
    [i \in 1..NumChunks |->
        SubSeq(seq, ChunkStart(Len(seq), i) + 1,
               ChunkStart(Len(seq), i) + ChunkSize(Len(seq), i))]

\* first_alpha_lower
RECURSIVE first_alpha_lower(_)
first_alpha_lower(s) ==
    IF s = <<>> THEN "misc"
    ELSE IF CharRank(LowerChar(Head(s))) > 0 THEN LowerChar(Head(s))
    ELSE first_alpha_lower(Tail(s))

\* The three layouts: images per page (rows * columns).
Layouts ==
    << [base |-> "characters_tarot_120x70mm_2x2_landscape", columns |-> 2, rows |-> 2],
       [base |-> "characters_scaled_height_90mm_1x2_portrait", columns |-> 1, rows |-> 2],
       [base |-> "characters_native_pixel_size_1up", columns |-> 1, rows |-> 1] >>

\* generate_pdf_with_grid and generate_pdf_one_per_image_tight_page: the
\* pages of the PDF, each the images drawn on it in drawing order.
PagesOf(images, per_page) ==
    [p \in 1..((Len(images) + per_page - 1) \div per_page) |->
        SubSeq(images, (p - 1) * per_page + 1,
               IF p * per_page < Len(images) THEN p * per_page ELSE Len(images))]

\* main up to the loop over the chunks.
PdfPrepare ==
    /\ pdfPc = "start"
    /\ LET names == read_names_in_order(namesFile)
           matching_names == SelectSeq(names, LAMBDA n : n \in imageFiles)
       IN  IF matching_names = <<>>
           THEN /\ pdfPc' = "exit"
                /\ UNCHANGED pdfChunks
           ELSE /\ pdfChunks' = split_into_chunks(PdfOrder(matching_names))
                /\ pdfPc' = "write"
    /\ UNCHANGED <<namesFile, imageFiles, pdfFiles>>

\* One turn of "for _, chunk in enumerate(chunks_names, start=1)": nothing for
\* an empty chunk, else the three PDFs of the chunk.
PdfWriteChunk ==
    /\ pdfPc = "write"
    /\ pdfChunks # <<>>
    /\ LET chunk == Head(pdfChunks)
           range_label == <<first_alpha_lower(chunk[1]), first_alpha_lower(chunk[Len(chunk)])>>
           written == [l \in 1..Len(Layouts) |->
                          PagesOf(chunk, Layouts[l].rows * Layouts[l].columns)]
       IN  pdfFiles' =
             IF chunk = <<>> THEN pdfFiles
             ELSE [f \in DOMAIN pdfFiles \cup {<<Layouts[l].base, range_label>> : l \in 1..Len(Layouts)} |->
                     IF \E l \in 1..Len(Layouts) : f = <<Layouts[l].base, range_label>>
                     THEN written[CHOOSE l \in 1..Len(Layouts) : f = <<Layouts[l].base, range_label>>]
                     ELSE pdfFiles[f]]
    /\ pdfChunks' = Tail(pdfChunks)
    /\ pdfPc' = IF Tail(pdfChunks) = <<>> THEN "done" ELSE "write"
    /\ UNCHANGED <<namesFile, imageFiles>>

PdfInit ==
    /\ namesFile \in NameFiles
    /\ imageFiles \in {CardNames, CardNames \ {<<"B", "o">>}}
    /\ pdfFiles = EmptyDict
    /\ pdfChunks = <<>>
    /\ pdfPc = "start"

InitPdf == PdfInit /\ ExceptPdfIdle

PdfNext ==
    \/ PdfPrepare /\ UNCHANGED exceptPdf
    \/ PdfWriteChunk /\ UNCHANGED exceptPdf

SpecPdf == InitPdf /\ [][PdfNext]_vars

\* The images of a PDF in page order.
RECURSIVE ImagesOf(_)
ImagesOf(pages) == IF pages = <<>> THEN <<>> ELSE Head(pages) \o ImagesOf(Tail(pages))

\* The names of the lines of the file, the blank at the end of a line left out.
ListedName(line) == IF line = <<"B", "o", " ">> THEN <<"B", "o">> ELSE line

\* a can be read off b from left to right.
RECURSIVE InOrderOf(_, _)
InOrderOf(a, b) ==
    IF a = <<>> THEN TRUE
    ELSE IF b = <<>> THEN FALSE
    ELSE IF Head(a) = ListedName(Head(b)) THEN InOrderOf(Tail(a), Tail(b))
    ELSE InOrderOf(a, Tail(b))

\* C10: in every PDF written, the card images appear in the order in which
\* their names are listed in names_by_page_in_pdf.txt (names without an
\* image skipped).
C10_PdfFollowsNamesFile ==
    \A f \in DOMAIN pdfFiles : InOrderOf(ImagesOf(pdfFiles[f]), namesFile)

(***************************************************************************)
(* generate_pdf_with_grid (generate_final_character_pdf.py)                *)
(*                                                                         *)
(* Lengths are in hundredths of a millimetre; the origin of a page is its  *)
(* lower left corner.                                                      *)
(***************************************************************************)

\* landscape_settings and portrait_settings of main (the image of the
\* portrait layout is 120 * 90 / 70 mm wide).
GridSettings ==
    { [page_width |-> 27940, page_height |-> 21590, columns |-> 2, rows |-> 2,
       image_width |-> 12000, image_height |-> 7000, gutter_x |-> 500, gutter_y |-> 500],
      [page_width |-> 21590, page_height |-> 27940, columns |-> 1, rows |-> 2,
       image_width |-> 15428, image_height |-> 9000, gutter_x |-> 500, gutter_y |-> 500] }

\* The image files a list may name.
GridImageFiles == {"abe.png", "bo.png"}

GridImageLists == UNION {[1..n -> GridImageFiles] : n \in 0..MaxImages}

\* xs: the left edge of each column.
GridXs(gs) ==
    LET total == gs.columns * gs.image_width + (gs.columns - 1) * gs.gutter_x
        left_margin == (gs.page_width - total) \div 2
    IN  [c \in 1..gs.columns |-> left_margin + (c - 1) * (gs.image_width + gs.gutter_x)]

\* ys: the lower edge of each row, from the bottom row up.
GridYs(gs) ==
    LET total == gs.rows * gs.image_height + (gs.rows - 1) * gs.gutter_y
        bottom_margin == (gs.page_height - total) \div 2
    IN  [r \in 1..gs.rows |-> bottom_margin + (r - 1) * (gs.image_height + gs.gutter_y)]

\* ys_draw = list(reversed(ys))
YsDrawMutNotReversed(gs) == GridYs(gs)

YsDraw(gs) == [r \in 1..gs.rows |-> GridYs(gs)[gs.rows + 1 - r]]

\* The configured images and gutters are larger than the page.
GridTooLarge(gs) ==
    \/ gs.columns * gs.image_width + (gs.columns - 1) * gs.gutter_x > gs.page_width
    \/ gs.rows * gs.image_height + (gs.rows - 1) * gs.gutter_y > gs.page_height

\* The drawImage calls for one page: image idx (from 0) goes to column
\* idx % columns of row idx // columns.
GridDrawPage(page_images, gs) ==
    [k \in 1..Len(page_images) |->
        [image |-> page_images[k],
         x |-> GridXs(gs)[((k - 1) % gs.columns) + 1],
         y |-> YsDraw(gs)[((k - 1) \div gs.columns) + 1]]]

\* generate_pdf_with_grid up to the loop over the pages.
GridBegin ==
    /\ gridPc = "start"
    /\ gridPc' = IF gridIn.images = <<>> \/ GridTooLarge(gridIn.settings)
                 THEN "exit" ELSE "pages"
    /\ UNCHANGED <<gridIn, gridPages>>

\* One turn of "for i in range(0, len(images), per_page)", showPage included.
GridPage ==
    /\ gridPc = "pages"
    /\ LET per_page == gridIn.settings.rows * gridIn.settings.columns
           i == Len(gridPages) * per_page
       IN  /\ i < Len(gridIn.images)
           /\ gridPages' =
                Append(gridPages,
                       GridDrawPage(SubSeq(gridIn.images, i + 1,
                                           IF i + per_page < Len(gridIn.images)
                                           THEN i + per_page ELSE Len(gridIn.images)),
                                    gridIn.settings))
    /\ UNCHANGED <<gridIn, gridPc>>

\* The loop is over: c.save().
GridSave ==
    /\ gridPc = "pages"
    /\ Len(gridPages) * gridIn.settings.rows * gridIn.settings.columns >= Len(gridIn.images)
    /\ gridPc' = "done"
    /\ UNCHANGED <<gridIn, gridPages>>

GridInit ==
    /\ gridIn \in [images : GridImageLists, settings : GridSettings]
    /\ gridPages = <<>>
    /\ gridPc = "start"

InitGrid == GridInit /\ ExceptGridIdle

GridNext ==
    \/ GridBegin /\ UNCHANGED exceptGrid
    \/ GridPage /\ UNCHANGED exceptGrid
    \/ GridSave /\ UNCHANGED exceptGrid

SpecGrid == InitGrid /\ [][GridNext]_vars

\* The images of the pages, page after page, in drawing order.
RECURSIVE GridImagesOf(_)
GridImagesOf(pages) ==
    IF pages = <<>> THEN <<>>
    ELSE [k \in 1..Len(Head(pages)) |-> Head(pages)[k].image] \o GridImagesOf(Tail(pages))

\* The images of a page that stand in the row of its k-th image.
InRowOf(page, k) == {j \in 1..Len(page) : page[j].y = page[k].y}

\* C11: generate_pdf_with_grid draws every image of its list once, in list
\* order, each page row by row from the top row and from left to right; all
\* pages but the last hold rows * columns images and there are
\* ceil(n / (rows * columns)) pages.
C11_GridFillsPages ==
    gridPc = "done" =>
        LET per_page == gridIn.settings.rows * gridIn.settings.columns
            n == Len(gridIn.images)
        IN  /\ GridImagesOf(gridPages) = gridIn.images
            /\ (Len(gridPages) - 1) * per_page < n
            /\ n <= Len(gridPages) * per_page
            /\ \A p \in 1..Len(gridPages) :
                 /\ p < Len(gridPages) => Len(gridPages[p]) = per_page
                 /\ Len(gridPages[p]) \in 1..per_page
                 /\ \A k \in 1..Len(gridPages[p]) :
                      /\ Cardinality(InRowOf(gridPages[p], k)) <= gridIn.settings.columns
                      /\ gridPages[p][k].y <= gridPages[p][1].y
                      /\ gridPages[p][1].x <= gridPages[p][k].x
                      /\ k > 1 =>
                           \/ /\ gridPages[p][k].y = gridPages[p][k - 1].y
                              /\ gridPages[p][k].x > gridPages[p][k - 1].x
                           \/ /\ gridPages[p][k].y < gridPages[p][k - 1].y
                              /\ gridPages[p][k].x = gridPages[p][1].x
                              /\ Cardinality(InRowOf(gridPages[p], k - 1))
                                   = gridIn.settings.columns

\* C11 witness: five images in the 2x2 layout made a full page, filled in
\* two rows, and a second page with one image.
C11_Witness ==
    /\ gridPc = "done"
    /\ gridIn.settings.columns = 2
    /\ Len(gridPages) = 2
    /\ Len(gridPages[1]) = 4
    /\ Len(gridPages[2]) = 1
    /\ gridPages[1][3].y < gridPages[1][1].y

(***************************************************************************)
(* character_wide_cards/generate_missing_abilities.py                      *)
(*                                                                         *)
(* Texts of this program are strings; "\n" ends a line.                    *)
(***************************************************************************)

\* str.startswith, str.endswith, "p in s".
StartsWith(s, p) == Len(s) >= Len(p) /\ SubSeq(s, 1, Len(p)) = p

EndsWith(s, p) == Len(s) >= Len(p) /\ SubSeq(s, Len(s) - Len(p) + 1, Len(s)) = p

ContainsStr(s, p) == \E i \in 1..(Len(s) - Len(p) + 1) : SubSeq(s, i, i + Len(p) - 1) = p

\* The place of the first occurrence of the character c in s, 0 if none.
RECURSIVE FindFrom(_, _, _)
FindFrom(s, c, i) ==
    IF i > Len(s) THEN 0
    ELSE IF SubSeq(s, i, i) = c THEN i
    ELSE FindFrom(s, c, i + 1)

\* str.lower()
RECURSIVE StrLower(_)
StrLower(s) ==
    IF s = "" THEN "" ELSE LowerChar(SubSeq(s, 1, 1)) \o StrLower(Tail(s))

\* str.strip(chars), str.rstrip()
RECURSIVE LStripChars(_, _)
LStripChars(s, chars) ==
    IF s # "" /\ SubSeq(s, 1, 1) \in chars THEN LStripChars(Tail(s), chars) ELSE s

RECURSIVE RStripChars(_, _)
RStripChars(s, chars) ==
    IF s # "" /\ SubSeq(s, Len(s), Len(s)) \in chars
    THEN RStripChars(SubSeq(s, 1, Len(s) - 1), chars)
    ELSE s

StripChars(s, chars) == RStripChars(LStripChars(s, chars), chars)

WhiteSpace == {" ", "\n"}

\* str.splitlines()
RECURSIVE splitlines(_)
splitlines(s) ==
    IF s = "" THEN <<>>
    ELSE IF FindFrom(s, "\n", 1) = 0 THEN <<s>>
    ELSE <<SubSeq(s, 1, FindFrom(s, "\n", 1) - 1)>>
         \o splitlines(SubSeq(s, FindFrom(s, "\n", 1) + 1, Len(s)))

\* "\n".join(lines)
RECURSIVE JoinLines(_)
JoinLines(lines) ==
    IF lines = <<>> THEN ""
    ELSE IF Len(lines) = 1 THEN lines[1]
    ELSE lines[1] \o "\n" \o JoinLines(Tail(lines))

\* yaml.safe_load: the key a top-level line of a block mapping opens (quotes
\* taken off), "" for a line that opens none.
YamlKeyOfLine(line) ==
    IF line = "" \/ SubSeq(line, 1, 1) \in {" ", "#"} \/ FindFrom(line, ":", 1) = 0
    THEN ""
    ELSE LET k == StripChars(SubSeq(line, 1, FindFrom(line, ":", 1) - 1), {" "}) IN
         IF Len(k) >= 2 /\ StartsWith(k, "\"") /\ EndsWith(k, "\"")
         THEN SubSeq(k, 2, Len(k) - 1)
         ELSE k

\* The keys of the mapping a YAML text holds.
YamlKeys(text) ==
    {YamlKeyOfLine(splitlines(text)[i]) : i \in 1..Len(splitlines(text))} \ {""}

\* load_existing_ability_names: raw, the keys of the parsed file.
load_existing_ability_names(text) == {k \in YamlKeys(text) : StripChars(k, WhiteSpace) # ""}

\* name_in_yaml_text
name_in_yaml_text(yaml_text, name) ==
    /\ name # ""
    /\ \/ ContainsStr(StrLower(yaml_text), "\n" \o StrLower(StripChars(name, WhiteSpace)))
       \/ ContainsStr(StrLower(yaml_text), "\"" \o StrLower(StripChars(name, WhiteSpace)))

SENTINEL_NO_NEW == "# NO NEW ABILITIES"

\* The characters of moonstone_data.json in the model: whether an ability
\* has an energyCost, the names of the abilities that have one, and whether
\* find_stat_card_image finds the stat card.
MissCharacters ==
    { [name |-> "Ann", hasEnergy |-> TRUE, np_names |-> <<"F">>, image |-> TRUE],
      [name |-> "Bob B", hasEnergy |-> TRUE, np_names |-> <<"N">>, image |-> TRUE],
      [name |-> "Cy", hasEnergy |-> TRUE, np_names |-> <<"N">>, image |-> FALSE],
      [name |-> "Dee", hasEnergy |-> FALSE, np_names |-> <<>>, image |-> TRUE],
      [name |-> "Eve", hasEnergy |-> TRUE, np_names |-> <<>>, image |-> TRUE] }

MissCharacterLists == UNION {[1..n -> MissCharacters] : n \in 0..MaxCharacters}

\* abilities_strings.yaml before the run: empty, one ability, or one ability
\* under a quoted key and without a final line end.
MissYamlFiles ==
    { "",
      "F:\n  cost: 1\n",
      "\"F\":\n  cost: 1" }

\* What the chat completions call may do: raise, or return a text.
ModelOutcomes ==
    { [error |-> TRUE, content |-> ""],
      [error |-> FALSE, content |-> "# NO NEW ABILITIES\n"],
      [error |-> FALSE, content |-> "N:\n  cost: 2\n"],
      [error |-> FALSE, content |-> "F:\n  cost: 2"],
      [error |-> FALSE, content |-> "\"F\":\n  cost: 2"],
      [error |-> FALSE, content |-> "N:\n  cost: 2\nF: # two\n  cost: 3"] }

\* character_has_active_or_arcane_ability, get_non_passive_ability_names and
\* the presence check of main and process_character.
AllPresent(char, yaml_text) ==
    /\ char.np_names # <<>>
    /\ \A i \in 1..Len(char.np_names) : name_in_yaml_text(yaml_text, char.np_names[i])

Eligible(char, yaml_text) == char.hasEnergy /\ ~AllPresent(char, yaml_text)

\* call_model with dry_run: no request is made.
DryRunResponse == SENTINEL_NO_NEW \o "  # dry run"

\* blocks[name] = [line] / blocks[name].append(line) of a dict in insertion
\* order.
SetBlock(blocks, name, blines) ==
    IF \E i \in 1..Len(blocks) : blocks[i].name = name
    THEN [i \in 1..Len(blocks) |->
            IF blocks[i].name = name THEN [name |-> name, lines |-> blines] ELSE blocks[i]]
    ELSE Append(blocks, [name |-> name, lines |-> blines])

BlockLines(blocks, name) ==
    blocks[CHOOSE i \in 1..Len(blocks) : blocks[i].name = name].lines

\* The loop "for line in lines" of extract_new_ability_blocks.
RECURSIVE CollectBlocks(_, _, _)
CollectBlocks(lines, blocks, current_name) ==
    IF lines = <<>> THEN blocks
    ELSE LET line == Head(lines) IN
         IF line # "" /\ ~StartsWith(line, " ") /\ EndsWith(line, ":")
         THEN CollectBlocks(Tail(lines),
                            SetBlock(blocks, SubSeq(line, 1, Len(line) - 1), <<line>>),
                            SubSeq(line, 1, Len(line) - 1))
         ELSE IF current_name # ""
         THEN CollectBlocks(Tail(lines),
                            SetBlock(blocks, current_name,
                                     Append(BlockLines(blocks, current_name), line)),
                            current_name)
         ELSE CollectBlocks(Tail(lines), blocks, current_name)

IsNew(name, existing_names) == name \notin existing_names

\* extract_new_ability_blocks: the blocks of the names that are new, each
\* with its text.
extract_new_ability_blocks(raw_text, existing_names) ==
    IF StartsWith(StripChars(raw_text, WhiteSpace), SENTINEL_NO_NEW) THEN <<>>
    ELSE LET blocks == CollectBlocks(splitlines(raw_text), <<>>, "")
             kept == SelectSeq(blocks, LAMBDA b : IsNew(b.name, existing_names))
         IN  [i \in 1..Len(kept) |->
                [name |-> kept[i].name,
                 text |-> RStripChars(JoinLines(kept[i].lines), WhiteSpace) \o "\n"]]

\* What append_abilities_to_yaml writes for blocks that are not empty.
RECURSIVE BlocksText(_)
BlocksText(blocks) ==
    IF blocks = <<>> THEN "" ELSE Head(blocks).text \o BlocksText(Tail(blocks))

\* open(ABILITIES_YAML, 'a') and the writes.
AppendToFileMutTruncate(content, written) == written

AppendToFile(content, written) == content \o written

\* name.replace(' ', '_')
RECURSIVE ReplaceBlanks(_)
ReplaceBlanks(s) ==
    IF s = "" THEN ""
    ELSE (IF SubSeq(s, 1, 1) = " " THEN "_" ELSE SubSeq(s, 1, 1)) \o ReplaceBlanks(Tail(s))

LogFileOf(char) == ReplaceBlanks(char.name) \o ".log"

\* main up to the loop over the eligible characters.
MissMain ==
    /\ missPc = "start"
    /\ missExisting' = load_existing_ability_names(missYaml)
    /\ missQueue' = SelectSeq(missIn.characters, LAMBDA c : Eligible(c, missYaml))
    /\ missPc' = IF \A i \in 1..Len(missIn.characters) :
                       ~Eligible(missIn.characters[i], missYaml)
                 THEN "done" ELSE "loop"
    /\ UNCHANGED <<missIn, missYaml, missLogs, missApiCalls>>

\* The character is skipped: every ability present, or no image.
MissSkip(char) == AllPresent(char, missYaml) \/ ~char.image

\* One turn of the loop of main: process_character, then yaml_text is read
\* again from the file (it is the file's text whenever a turn starts).
MissProcess(outcome) ==
    /\ missPc = "loop"
    /\ missQueue # <<>>
    /\ LET char == Head(missQueue)
           called == ~MissSkip(char) /\ ~missIn.dry_run
           returned == ~MissSkip(char) /\ (missIn.dry_run \/ ~outcome.error)
           raw_response == IF missIn.dry_run THEN DryRunResponse
                           ELSE StripChars(outcome.content, WhiteSpace)
           new_blocks == IF returned
                         THEN extract_new_ability_blocks(raw_response, missExisting)
                         ELSE <<>>
           appended == new_blocks # <<>> /\ ~missIn.dry_run
       IN  /\ missApiCalls' = IF called THEN missApiCalls + 1 ELSE missApiCalls
           /\ missYaml' = IF appended
                          THEN AppendToFile(missYaml, "\n" \o BlocksText(new_blocks))
                          ELSE missYaml
           /\ missExisting' = IF appended
                              THEN missExisting \cup
                                   {new_blocks[i].name : i \in 1..Len(new_blocks)}
                              ELSE missExisting
           /\ missLogs' = IF returned THEN missLogs \cup {LogFileOf(char)} ELSE missLogs
    /\ missQueue' = Tail(missQueue)
    /\ missPc' = IF Tail(missQueue) = <<>> THEN "done" ELSE "loop"
    /\ UNCHANGED missIn

MissInit ==
    /\ missIn \in [characters : MissCharacterLists, dry_run : BOOLEAN, yaml : MissYamlFiles]
    /\ missYaml = missIn.yaml
    /\ missExisting = {}
    /\ missQueue = <<>>
    /\ missLogs = {}
    /\ missApiCalls = 0
    /\ missPc = "start"

InitMiss == MissInit /\ ExceptMissIdle

MissNext ==
    \/ MissMain /\ UNCHANGED exceptMiss
    \/ \E outcome \in ModelOutcomes : MissProcess(outcome) /\ UNCHANGED exceptMiss

SpecMiss == InitMiss /\ [][MissNext]_vars

\* C12: generate_missing_abilities.py only appends: the text that
\* abilities_strings.yaml had before the run is a prefix of its text at any
\* time of the run.
C12_YamlOnlyGrows ==
    missPc \in {"start", "loop", "done"} =>
        /\ Len(missYaml) >= Len(missIn.yaml)
        /\ SubSeq(missYaml, 1, Len(missIn.yaml)) = missIn.yaml

\* C12 witness: two characters were processed and each made the file grow,
\* which was not empty at the start.
C12_Witness ==
    /\ missPc = "done"
    /\ missIn.yaml = "\"F\":\n  cost: 1"
    /\ missApiCalls = 2
    /\ "N" \in missExisting
    /\ Cardinality(missExisting) >= 3

\* C13: no block is appended for an ability whose name is already a key of
\* abilities_strings.yaml: every key the appended text opens is new to the
\* file.
C13_NoBlockForExistingKey ==
    [][\A k \in YamlKeys(SubSeq(missYaml', Len(missYaml) + 1, Len(missYaml'))) :
          k \notin YamlKeys(missYaml)]_vars

\* C14: during a dry run no API call is made and no file is created or
\* modified.
C14_DryRunTouchesNothing ==
    (missPc \in {"start", "loop", "done"} /\ missIn.dry_run) =>
        /\ missApiCalls = 0
        /\ missYaml = missIn.yaml
        /\ missLogs = {}


(***************************************************************************)
(* character_wide_cards/get_versions_from_pdf.py                           *)
(***************************************************************************)

\* The character of s at position i (1-based), "" outside of s.
CharAt(s, i) == IF i \in 1..Len(s) THEN SubSeq(s, i, i) ELSE ""

\* \w and \d of the regular expressions.
IsDigitChar(c) == \E i \in 1..Len(Digits) : Digits[i] = c

IsWordChar(c) ==
    \/ IsDigitChar(c)
    \/ c = "_"
    \/ \E i \in 1..Len(LowerCase) : LowerCase[i] = c \/ UpperCase[i] = c

\* \b between the characters at i - 1 and i.
WordBoundary(s, i) == IsWordChar(CharAt(s, i - 1)) # IsWordChar(CharAt(s, i))

\* The first position from i on that is not white space (\s*), not a digit (\d+).
RECURSIVE SkipSpaces(_, _)
SkipSpaces(s, i) == IF CharAt(s, i) \in WhiteSpace THEN SkipSpaces(s, i + 1) ELSE i

RECURSIVE SkipDigits(_, _)
SkipDigits(s, i) == IF IsDigitChar(CharAt(s, i)) THEN SkipDigits(s, i + 1) ELSE i

\* int(m.group(1))
RECURSIVE ToInt(_)
ToInt(s) ==
    IF s = "" THEN 0
    ELSE ToInt(SubSeq(s, 1, Len(s) - 1)) * 10
         + ((CHOOSE i \in 1..Len(Digits) : Digits[i] = CharAt(s, Len(s))) - 1)

\* VERSION_REGEX = \bv\.\s*(\d+)\b with IGNORECASE, tried at position i: the
\* position after the match, 0 when there is no match at i.
VersionMatchEnd(s, i) ==
    LET digits_from == SkipSpaces(s, i + 2)
        digits_to == SkipDigits(s, digits_from)
    IN  IF /\ CharAt(s, i) \in {"v", "V"}
           /\ WordBoundary(s, i)
           /\ CharAt(s, i + 1) = "."
           /\ digits_to > digits_from
           /\ WordBoundary(s, digits_to)
        THEN digits_to
        ELSE 0

\* [int(m.group(1)) for m in VERSION_REGEX.finditer(text)], from position i on.
RECURSIVE VersionsFrom(_, _)
VersionsFrom(s, i) ==
    IF i > Len(s) THEN {}
    ELSE IF VersionMatchEnd(s, i) = 0 THEN VersionsFrom(s, i + 1)
    ELSE {ToInt(SubSeq(s, SkipSpaces(s, i + 2), VersionMatchEnd(s, i) - 1))}
         \cup VersionsFrom(s, VersionMatchEnd(s, i))

detect_version_from_text(text) ==
    LET versions == VersionsFrom(text, 1) IN
    IF versions = {} THEN 1
    ELSE CHOOSE v \in versions : \A w \in versions : w <= v

\* Entries of moonstone_data.json: the value of "name" (null when it is not
\* a string) and the "version" key (has = FALSE when the key is missing).
VerEntry(name, has, version) ==
    [name |-> [null |-> FALSE, value |-> name],
     version |-> [has |-> has, value |-> version]]

VerEntryNoName ==
    [name |-> [null |-> TRUE, value |-> ""], version |-> [has |-> FALSE, value |-> 0]]

VerJsonFiles ==
    { <<VerEntry("Ann", FALSE, 0), VerEntry("Bo", TRUE, 5), VerEntryNoName,
        VerEntry("Ann", FALSE, 0)>>,
      <<VerEntry("Ann", TRUE, 1), VerEntry("Ann", FALSE, 0), VerEntry("Ann", TRUE, 7)>>,
      <<VerEntry("Bo", FALSE, 0), VerEntry("Ann", TRUE, 4), VerEntry("Bo", FALSE, 0)>> }

\* Lines of names_by_page_in_pdf.txt; Cy is in no JSON file.
VerNames == {"Ann", "Bo", "Cy"}

\* Texts of PDF pages.
PageTexts == {"v.2 V. 3", "rev.9 v.2a", "v.12"}

RECURSIVE SeqsUpTo(_, _)
SeqsUpTo(S, n) ==
    IF n = 0 THEN {<<>>}
    ELSE LET shorter == SeqsUpTo(S, n - 1) IN
         shorter \cup {Append(l, a) : l \in {x \in shorter : Len(x) = n - 1}, a \in S}

\* build_name_index: for every name, the indices of its entries in order.
build_name_index(data) ==
    [name \in {data[i].name.value : i \in {k \in 1..Len(data) : ~data[k].name.null}} |->
        SelectSeq([i \in 1..Len(data) |-> i],
                  LAMBDA i : ~data[i].name.null /\ data[i].name.value = name)]

\* limit = min(total_pages, total_names)
VerLimit ==
    IF Len(verIn.pages) <= Len(verIn.names) THEN Len(verIn.pages) ELSE Len(verIn.names)

\* The positions j of range(cursor, len(indices)) whose entry has no version.
VerFree(data, indices, cursor) ==
    {j \in (cursor + 1)..Len(indices) : ~data[indices[j]].version.has}

VerFirst(S) == CHOOSE j \in S : \A k \in S : j <= k

TargetIdxMutLast(data, indices, cursor) == indices[Len(indices)]

\* target_idx: the first entry from the cursor on without a version, or the
\* last entry.
target_idx(data, indices, cursor) ==
    IF VerFree(data, indices, cursor) = {}
    THEN indices[Len(indices)]
    ELSE indices[VerFirst(VerFree(data, indices, cursor))]

\* assign_versions up to its loop.
VerBegin ==
    /\ verPc = "start"
    /\ verCursor' = [name \in DOMAIN build_name_index(verJson) |-> 0]
    /\ verPc' = IF VerLimit = 0 THEN "done" ELSE "loop"
    /\ UNCHANGED <<verIn, verJson, verI>>

\* One turn of the loop for i in range(limit).
VerStep ==
    /\ verPc = "loop"
    /\ verI < VerLimit
    /\ LET name == verIn.names[verI + 1]
           version == detect_version_from_text(verIn.pages[verI + 1])
           indices == DictGet(build_name_index(verIn.json), name, <<>>)
           cursor == DictGet(verCursor, name, 0)
       IN  IF indices = <<>>
           THEN UNCHANGED <<verJson, verCursor>>
           ELSE /\ verJson' =
                     [verJson EXCEPT ![target_idx(verJson, indices, cursor)].version =
                                         [has |-> TRUE, value |-> version]]
                /\ verCursor' =
                     IF VerFree(verJson, indices, cursor) = {} THEN verCursor
                     ELSE [verCursor EXCEPT
                              ![name] = VerFirst(VerFree(verJson, indices, cursor))]
    /\ verI' = verI + 1
    /\ verPc' = IF verI + 1 = VerLimit THEN "done" ELSE "loop"
    /\ UNCHANGED verIn

VerInit ==
    /\ verIn \in [names : SeqsUpTo(VerNames, MaxPages),
                  pages : SeqsUpTo(PageTexts, MaxPages),
                  json : VerJsonFiles]
    /\ verJson = verIn.json
    /\ verCursor = EmptyDict
    /\ verI = 0
    /\ verPc = "start"

InitVer == VerInit /\ ExceptVerIdle

VerNext ==
    \/ VerBegin /\ UNCHANGED exceptVer
    \/ VerStep /\ UNCHANGED exceptVer

SpecVer == InitVer /\ [][VerNext]_vars

\* The version the regular expression finds on each page text: the highest
\* "v. <number>" standing as a word, 1 without one.
ExpectedVersion ==
    [t \in PageTexts |-> CASE t = "v.2 V. 3" -> 3
                           [] t = "rev.9 v.2a" -> 1
                           [] t = "v.12" -> 12]

\* The indices of the entries of the JSON list with the given name.
VerNamed(name) ==
    {k \in 1..Len(verJson) : ~verJson[k].name.null /\ verJson[k].name.value = name}

\* C15: turn i of assign_versions (i < min(#names, #pages)) writes the
\* version of page i to the first entry named names[i] that has no version
\* key, or to the last entry of that name when all have one, and changes
\* nothing else; a name absent from the JSON changes no entry; the loop ends
\* after min(#names, #pages) turns.
C15_VersionToNextEntry ==
    [][verPc = "loop" =>
         LET name == verIn.names[verI + 1]
             free == {k \in VerNamed(name) : ~verJson[k].version.has}
             target == IF free # {}
                       THEN CHOOSE k \in free : \A m \in free : k <= m
                       ELSE CHOOSE k \in VerNamed(name) : \A m \in VerNamed(name) : m <= k
         IN  /\ verI + 1 <= Len(verIn.names)
             /\ verI + 1 <= Len(verIn.pages)
             /\ verI' = verI + 1
             /\ verPc' = "done" <=> (verI' = Len(verIn.names) \/ verI' = Len(verIn.pages))
             /\ IF VerNamed(name) = {}
                THEN verJson' = verJson
                ELSE verJson' =
                       [verJson EXCEPT ![target].version =
                           [has |-> TRUE, value |-> ExpectedVersion[verIn.pages[verI + 1]]]]
    ]_vars

\* C15 witness: Ann is met twice with an absent name between; the first
\* page's version went to the only entry without a version, and the third
\* page's version overwrote the last entry.
C15_Witness ==
    /\ verPc = "done"
    /\ verIn.names = <<"Ann", "Cy", "Ann">>
    /\ verIn.pages = <<"v.2 V. 3", "rev.9 v.2a", "v.12">>
    /\ verJson = <<VerEntry("Ann", TRUE, 1), VerEntry("Ann", TRUE, 3),
                   VerEntry("Ann", TRUE, 12)>>


(***************************************************************************)
(* character_wide_cards/extract_yellow_circles.py                          *)
(***************************************************************************)

\* Values of 'yellowCircleMoves' in a record: the key is missing, or it is
\* null, or it is a list of move names.
YelMissing == [has |-> FALSE, null |-> FALSE, value |-> <<>>]

YelNull == [has |-> TRUE, null |-> TRUE, value |-> <<>>]

YelList(moves) == [has |-> TRUE, null |-> FALSE, value |-> moves]

YelMoveLists == {<<>>, <<"Slash">>}

\* Records of moonstone_data.json, with and without a 'name' key.
YelRecords ==
    [hasName : {TRUE}, name : {"Ann", "Bo"},
     yellowCircleMoves : {YelMissing, YelNull} \cup {YelList(m) : m \in YelMoveLists}]
    \cup {[hasName |-> FALSE, name |-> "", yellowCircleMoves |-> YelNull]}

\* Results of extract_yellow_circles_from_pdf: for some names a list of
\* moves (the annotation also admits None); Cy is in no JSON list.
YelResults ==
    UNION {[names -> {[null |-> TRUE, value |-> <<>>]}
                     \cup {[null |-> FALSE, value |-> m] : m \in {<<>>, <<"Stab">>}}]
           : names \in SUBSET {"Ann", "Cy"}}

\* name_to_character: for every name the last record that has it.
name_to_character(json_data) ==
    [name \in {json_data[i].name : i \in {k \in 1..Len(json_data) : json_data[k].hasName}} |->
        CHOOSE i \in 1..Len(json_data) :
            /\ json_data[i].hasName /\ json_data[i].name = name
            /\ \A k \in (i + 1)..Len(json_data) :
                   ~(json_data[k].hasName /\ json_data[k].name = name)]

\* moves if moves is not None else []
MovesOrEmpty(moves) == IF moves.null THEN <<>> ELSE moves.value

\* The loop over yellow_circles.items().
YelApply(json_data, yellow_circles) ==
    [i \in 1..Len(json_data) |->
        IF /\ json_data[i].hasName
           /\ json_data[i].name \in DOMAIN yellow_circles
           /\ name_to_character(json_data)[json_data[i].name] = i
        THEN [json_data[i] EXCEPT
                 !.yellowCircleMoves = YelList(MovesOrEmpty(yellow_circles[json_data[i].name]))]
        ELSE json_data[i]]

\* The loop converting an existing null to an empty list.
YelConvertNulls(json_data) ==
    [i \in 1..Len(json_data) |->
        IF json_data[i].yellowCircleMoves.has /\ json_data[i].yellowCircleMoves.null
        THEN [json_data[i] EXCEPT !.yellowCircleMoves = YelList(<<>>)]
        ELSE json_data[i]]

update_json_with_yellow_circles ==
    /\ yelPc = "start"
    /\ yelJson' = YelConvertNulls(YelApply(yelJson, yelIn.yellow_circles))
    /\ yelPc' = "done"
    /\ UNCHANGED yelIn

YelInit ==
    /\ yelIn \in [json_data : SeqsUpTo(YelRecords, MaxRecords), yellow_circles : YelResults]
    /\ yelJson = yelIn.json_data
    /\ yelPc = "start"

InitYel == YelInit /\ ExceptYelIdle

YelNext == update_json_with_yellow_circles /\ UNCHANGED exceptYel

SpecYel == InitYel /\ [][YelNext]_vars

\* C16: after update_json_with_yellow_circles has returned, no record has a
\* null yellowCircleMoves, and every record whose name is a key of the
\* extraction result has that result's list as its yellowCircleMoves (the
\* empty list for a result of None).
C16_YellowCirclesUpdated ==
    yelPc = "done" =>
        /\ \A i \in 1..Len(yelJson) : ~yelJson[i].yellowCircleMoves.null
        /\ \A i \in 1..Len(yelJson) :
               (yelJson[i].hasName /\ yelJson[i].name \in DOMAIN yelIn.yellow_circles) =>
                   /\ yelJson[i].yellowCircleMoves.has
                   /\ yelJson[i].yellowCircleMoves.value =
                          (IF yelIn.yellow_circles[yelJson[i].name].null THEN <<>>
                           ELSE yelIn.yellow_circles[yelJson[i].name].value)


\* The largest number of calls of measure: one for each title size from
\* StartTitleSize down to MinSize.
MaxMeasureCalls == StartTitleSize - MinSize + 1

\* C17: the auto-shrink loop calls measure at most 13 times; every call and
\* the sizes the loop holds have the title size in 12..24 and the body size
\* in 12..23, and from one call to the next neither size grows.
C17_ShrinkLoopBounded ==
    cardPc \in {"fit", "draw", "done"} =>
        /\ MaxMeasureCalls = 13
        /\ Len(measured) <= MaxMeasureCalls
        /\ sizes[1] \in 12..24 /\ sizes[2] \in 12..23
        /\ \A i \in 1..Len(measured) :
               /\ measured[i][1] \in 12..24 /\ measured[i][2] \in 12..23
               /\ sizes[1] <= measured[i][1] /\ sizes[2] <= measured[i][2]
               /\ \A j \in 1..(i - 1) :
                      measured[j][1] >= measured[i][1] /\ measured[j][2] >= measured[i][2]

\* C17 witness: nothing fitted, the loop ended after its 13th call of
\* measure with both sizes at 12, and the card was drawn.
C17_Witness ==
    /\ cardPc = "done"
    /\ Len(measured) = 13
    /\ measured[13][1] = 12 /\ measured[13][2] = 12
    /\ measured[1][1] = 24 /\ measured[1][2] = 23
    /\ drawn.title = 12 /\ drawn.body = 12


(***************************************************************************)
(* layout_and_draw_abilities: the measure pass and the draw pass           *)
(* (create_left_side_of_wide_character_card.py), for one ability whose     *)
(* title is its name and, when it is arcane, whose only outcome is a       *)
(* catastrophe.                                                            *)
(***************************************************************************)

\* wrap_text as a function: the lines of the text.
RECURSIVE WrapWords(_, _, _, _)
WrapWords(words, line, lines, in) ==
    IF words = <<>>
    THEN IF line # <<>> THEN Append(lines, line) ELSE lines
    ELSE LET w == Head(words)
             test == IF line # <<>> THEN line \o <<" ">> \o w ELSE w
         IN  IF KeepOnLine(test, line, in)
             THEN WrapWords(Tail(words), test, lines, in)
             ELSE WrapWords(Tail(words), w, Append(lines, line), in)

wrap_text(text, font, max_width) ==
    IF text = <<>> THEN <<>>
    ELSE WrapWords(SplitOnSpace(text), <<>>, <<>>, [font |-> font, max_width |-> max_width])

ensure_period(text) ==
    LET s == RStrip(text) IN
    IF s = <<>> THEN s
    ELSE IF s[Len(s)] \in {".", "!", "?", "\"", "'"} THEN s
    ELSE s \o <<".">>

\* lb[3] - lb[1] of draw.textbbox((0, 0), line, font): the height of the ink
\* of the line, that of its tallest character.
CharHeight(c) ==
    CASE IsSpace(c) -> 0
      [] c = "." -> 1
      [] c = ":" -> 2
      [] c = "x" -> 3
      [] OTHER -> 4

RECURSIVE TextHeight(_)
TextHeight(t) ==
    IF t = <<>> THEN 0 ELSE Max(CharHeight(Head(t)), TextHeight(Tail(t)))

\* nb[3] - nb[1] of the title in the bold title font.
TitleHeight(base_text) == TextHeight(base_text) + 1

\* "y += (lb[3] - lb[1]) + 2" for every line.
RECURSIVE LinesHeight(_)
LinesHeight(lines) ==
    IF lines = <<>> THEN 0 ELSE TextHeight(Head(lines)) + 2 + LinesHeight(Tail(lines))

CatastrophePrefix == <<"C", "a", "t", "a", "s", "t", "r", "o", "p", "h", "e", ":", " ">>

line_gap == 8

\* The last element of wrap_text's lines, <<>> when there is none.
LastLine(lines) == IF lines = <<>> THEN <<>> ELSE lines[Len(lines)]

\* measure(title_size, body_size) for the ability a: the y it returns,
\* area_y being 0.
LayMeasureY(a, font, area_w) ==
    CASE a.kind = "passive" ->
           LET full == Strip(a.name \o <<":", " ">> \o a.description)
               lines == wrap_text(full, font, area_w)
               last_w == textbbox_width(LastLine(lines), font)
               tail == RStrip(a.extra)
               remaining == Max(0, area_w - last_w)
           IN  LinesHeight(lines)
               + (IF tail = <<>> \/ textbbox_width(tail, font) <= remaining THEN 0
                  ELSE LinesHeight(wrap_text(tail, font, area_w)))
               + line_gap
      [] a.kind = "activated" ->
           TitleHeight(a.name) + 4
           + LinesHeight(wrap_text(a.description, font, area_w))
           + (IF Strip(a.extra) = <<>> THEN 0
              ELSE LinesHeight(wrap_text(CatastrophePrefix \o ensure_period(Strip(a.extra)),
                                         font, area_w)))
           + line_gap
      [] a.kind = "arcane" ->
           TitleHeight(a.name) + 4
           + LinesHeight(wrap_text(CatastrophePrefix \o Strip(a.extra), font, area_w))
           + line_gap

\* The draw pass for the ability a: the y it returns, area_y being 0.
LayDrawY(a, font, area_w) ==
    CASE a.kind = "passive" ->
           LET full == Strip(a.name \o <<":", " ">> \o a.description)
               lines == wrap_text(full, font, area_w)
               last_w == textbbox_width(LastLine(lines), font)
               last_h == TextHeight(LastLine(lines))
               tail == RStrip(a.extra)
               remaining == Max(0, area_w - last_w)
           IN  LinesHeight(lines)
               + (IF tail = <<>> \/ (textbbox_width(tail, font) <= remaining /\ last_h > 0)
                  THEN 0
                  ELSE TextHeight(tail) + 2)
               + line_gap
      [] a.kind = "activated" ->
           TitleHeight(a.name) + 4
           + LinesHeight(wrap_text(a.description, font, area_w))
           + (IF Strip(a.extra) = <<>> THEN 0
              ELSE LinesHeight(wrap_text(CatastrophePrefix \o ensure_period(Strip(a.extra)),
                                         font, area_w)))
           + line_gap
      [] a.kind = "arcane" ->
           TitleHeight(a.name) + 4
           + LinesHeight(wrap_text(CatastrophePrefix \o ensure_period(Strip(a.extra)),
                                   font, area_w))
           + line_gap

\* Descriptions, and the texts of 'once_text', 'catastrophe' and of the
\* catastrophe outcome: letters x and blanks.
LayDescriptions == {<<>>, <<"x", "x", " ", "x", ".">>, <<"x", " ", "x", "x", " ", "x", ".">>}

LayExtras == {t \in Texts : \A i \in 1..Len(t) : t[i] # "emptyset"}

\* Widths of the text area: narrower than one word of the texts, and a
\* little wider than "Catastrophe:".
LayWidths == {3, 14, 15}

\* The last call of measure in the auto-shrink loop.
LayMeasure ==
    /\ layPc = "measure"
    /\ layNeeded' = LayMeasureY(layIn, layIn.font, layIn.area_w)
    /\ layPc' = "draw"
    /\ UNCHANGED <<layIn, layY>>

\* The draw pass.
LayDraw ==
    /\ layPc = "draw"
    /\ layY' = LayDrawY(layIn, layIn.font, layIn.area_w)
    /\ layPc' = "done"
    /\ UNCHANGED <<layIn, layNeeded>>

LayInit ==
    /\ layIn \in [kind : {"passive", "activated", "arcane"}, name : {<<"A">>},
                  description : LayDescriptions, extra : LayExtras,
                  font : Fonts, area_w : LayWidths]
    /\ layNeeded = 0
    /\ layY = 0
    /\ layPc = "measure"

InitLay == LayInit /\ ExceptLayIdle

LayNext ==
    \/ LayMeasure /\ UNCHANGED exceptLay
    \/ LayDraw /\ UNCHANGED exceptLay

SpecLay == InitLay /\ [][LayNext]_vars

Handlers == {"h1", "h2"}

\* Bodies that pass the checks of save_overlay, with and without an image.
ConcRequests ==
    {[present |-> TRUE, body |-> i @@ o] :
        i \in ItemBodies, o \in {EmptyDict, [overlayData |-> DataUrlImg1] @@ CustomMeta}}

\* (item_type, item_name) of a request.
ConcItem(req) == <<DictGet(req.body, "itemType", "objects"), req.body.itemName>>

\* save_overlay from the start to the write of the overlay image.
ConcReceive(h, req) ==
    /\ concPc[h] = "idle"
    /\ SaveError(req) = None
    /\ concReq' = [concReq EXCEPT ![h] = req]
    /\ concOverlays' =
         IF DictGet(req.body, "overlayData", <<>>) # <<>>
         THEN [concOverlays EXCEPT ![OverlayFilename(req.body.itemName)] =
                   b64decode(SplitCommaSecond(req.body.overlayData))]
         ELSE concOverlays
    /\ concPc' = [concPc EXCEPT ![h] = "load"]
    /\ UNCHANGED <<concConfig, concLocal>>

\* config = load_config(), then the entry of the item is set in it.
ConcLoad(h) ==
    /\ concPc[h] = "load"
    /\ LET data == concReq[h].body
           item_type == ConcItem(concReq[h])[1]
           item_name == ConcItem(concReq[h])[2]
           sent == DictGet(data, "overlayData", <<>>)
           overlay_data == IF sent # <<>> /\ HasComma(sent)
                           THEN SplitCommaSecond(sent) ELSE sent
           config == load_config(concConfig)
           typed == IF item_type \in DOMAIN config THEN config
                    ELSE DictSet(config, item_type, EmptyDict)
       IN  concLocal' = [concLocal EXCEPT ![h] =
               DictSet(typed, item_type,
                       DictSet(typed[item_type], item_name,
                               SavedEntry(item_name, overlay_data, data)))]
    /\ concPc' = [concPc EXCEPT ![h] = "open"]
    /\ UNCHANGED <<concConfig, concOverlays, concReq>>

\* save_config: open(CONFIG_PATH, 'w') empties config.json.
ConcOpen(h) ==
    /\ concPc[h] = "open"
    /\ concConfig' = [kind |-> "blank", value |-> EmptyDict]
    /\ concPc' = [concPc EXCEPT ![h] = "dump"]
    /\ UNCHANGED <<concOverlays, concReq, concLocal>>

\* save_config: json.dump writes from the start of the file and the handler
\* answers success. Over what another handler wrote since this one opened
\* the file, the text is this handler's, or not valid JSON when the other
\* text was longer.
ConcDump(h) ==
    /\ concPc[h] = "dump"
    /\ \/ concConfig' = save_config(concLocal[h])
       \/ /\ concConfig.kind # "blank"
          /\ concConfig' = [kind |-> "garbage", value |-> EmptyDict]
    /\ concPc' = [concPc EXCEPT ![h] = "done"]
    /\ UNCHANGED <<concOverlays, concReq, concLocal>>

ConcInit ==
    /\ concConfig \in StartConfigs
    /\ concOverlays = [f \in OverlayFilenames |-> NoFile]
    /\ concPc = [h \in Handlers |-> "idle"]
    /\ concReq = [h \in Handlers |-> [present |-> FALSE, body |-> EmptyDict]]
    /\ concLocal = [h \in Handlers |-> EmptyDict]

InitConc == ConcInit /\ ExceptConcIdle

ConcNext ==
    \/ \E h \in Handlers, req \in ConcRequests : ConcReceive(h, req) /\ UNCHANGED exceptConc
    \/ \E h \in Handlers : ConcLoad(h) /\ UNCHANGED exceptConc
    \/ \E h \in Handlers : ConcOpen(h) /\ UNCHANGED exceptConc
    \/ \E h \in Handlers : ConcDump(h) /\ UNCHANGED exceptConc

SpecConc == InitConc /\ [][ConcNext]_vars

\* C19: whenever two POST /api/save requests for different items have both
\* answered success, config.json holds the entries of both items.
C19_NoSaveLost ==
    \A h1 \in Handlers, h2 \in Handlers :
        (/\ h1 # h2
         /\ concPc[h1] = "done" /\ concPc[h2] = "done"
         /\ ConcItem(concReq[h1]) # ConcItem(concReq[h2])) =>
            \A h \in {h1, h2} :
                ConcItem(concReq[h])[2] \in
                    DOMAIN DictGet(load_config(concConfig), ConcItem(concReq[h])[1], EmptyDict)


\* The image GET /api/overlay leads the client to for the item: the content
\* of the overlay file of its config entry, NoFile when the answer is
\* exists = false.
ServedOverlay(file, files, item) ==
    IF OverlayAnswer(file, files, item[1], item[2]).exists
    THEN files[DictGet(DictGet(load_config(file), item[1], EmptyDict),
                       item[2], EmptyDict).overlay]
    ELSE NoFile

\* C20: a successful POST /api/save for one item leaves the overlay image
\* served for every other item (another type or another file name) as it
\* was.
C20_OtherOverlaysUntouched ==
    [][(response'.op = "save" /\ response'.status = 200) =>
          \A item \in ItemTypes \X ItemNames :
              item # <<DictGet(response'.args.body, "itemType", "objects"),
                       response'.args.body.itemName>> =>
                  ServedOverlay(configFile', overlayFiles', item)
                      = ServedOverlay(configFile, overlayFiles, item)]_vars

=============================================================================
